---------------------------- MODULE Spec2Model ----------------------------
(***************************************************************************)
(* A model of the weather/alert subsystem of the map application:          *)
(* WeatherService (src/src/services/weatherService.ts) with its reading    *)
(* cache, its alert cache and its hazard classifier, and the WeatherPanel  *)
(* component (src/src/components/WeatherPanel.tsx) that drives it; and of *)
(* the two components that search and edit the map: LocationSearch         *)
(* (src/src/components/LocationSearch.tsx) with its debounced geocoding    *)
(* requests, and App (src/src/App.tsx) with its marker list.               *)
(*                                                                         *)
(* Units.  The clock counts milliseconds, as Date.now() does.  Values the  *)
(* code rounds to one decimal (temperature, precipitation, slopeAngle,     *)
(* seismicActivity, recentRainfall) are integers in tenths; windSpeed,     *)
(* which the code never rounds, is an integer in thousandths; humidity,    *)
(* soilMoisture and terrainStability are whole percents.  Latitude and     *)
(* longitude are integers in tenths of a degree.  Math.random() is a       *)
(* number k/1000 with k in 0..999, and carries the name of k.              *)
(***************************************************************************)
EXTENDS Integers, Sequences, FiniteSets, TLC

----------------------------------------------------------------------------
(* Bounds of the model *)

\* The clock advances at most MaxTicks times in a behaviour.
MaxTicks == 2

\* generateAlerts is called at most MaxCalls times in a behaviour.
MaxCalls == 2

\* The call frames: generateAlerts calls that can be in flight together.
Procs == {1, 2}

\* How far the clock may advance from one event to the next.
TickSteps == {5 * 60 * 1000 - 1, 5 * 60 * 1000, 6 * 60 * 60 * 1000}

\* How far the clock may advance while one synchronous handler runs, and
\* before which of the handler's clock readings it does.
ClockDrift == {0, 1}
DriftReads == {3}

\* The values Math.random() takes, in thousandths.
RandLevels == {0, 999}

\* The values Math.random() takes where the suffix of an alert id is drawn.
SuffixLevels == {250, 500}

\* The search box changes at most MaxInputs times in a behaviour, and the
\* clock advances at most MaxElapses times between the events of the two
\* map components, by one of ElapseSteps milliseconds.
MaxInputs == 3
MaxElapses == 3
ElapseSteps == {100, 300, 500}

\* The map clicks, searches and deletions of one run of the App.
MaxClicks == 2
MaxSearches == 1
MaxDeletes == 1
\* What the user types into the search box of the App.
SearchQueries == {" ", "chicago", "delhi"}

\* What the user types into the search box of LocationSearch.
InputValues == {" ", "d", "de"}

\* The calendar months the main specification runs in.
StartMonths == {7}

\* The locations callers ask about: (28.6, 77.2) and (34, 77).
Locations ==
    { [lat |-> 286, lng |-> 772, name |-> "Delhi"],
      [lat |-> 340, lng |-> 770, name |-> "Leh"] }

----------------------------------------------------------------------------
(* Program constants *)

\* The states the service knows, each with its region (lines 5-18); the
\* cities are left out.
INDIAN_LOCATIONS ==
    { [state |-> "Maharashtra",      region |-> "Western India"],
      [state |-> "Karnataka",        region |-> "Southern India"],
      [state |-> "Tamil Nadu",       region |-> "Southern India"],
      [state |-> "Kerala",           region |-> "Southern India"],
      [state |-> "West Bengal",      region |-> "Eastern India"],
      [state |-> "Rajasthan",        region |-> "Northern India"],
      [state |-> "Gujarat",          region |-> "Western India"],
      [state |-> "Uttar Pradesh",    region |-> "Northern India"],
      [state |-> "Madhya Pradesh",   region |-> "Central India"],
      [state |-> "Himachal Pradesh", region |-> "Northern India"],
      [state |-> "Uttarakhand",      region |-> "Northern India"],
      [state |-> "Assam",            region |-> "North-Eastern India"] }

MONSOON_MONTHS == {6, 7, 8, 9}
WINTER_MONTHS == {12, 1, 2}
SUMMER_MONTHS == {3, 4, 5}

\* A faulty variant of CACHE_DURATION: the TTL written in seconds.
CACHE_DURATION_Seconds == 5 * 60

CACHE_DURATION == 5 * 60 * 1000

LandslideHorizon == 12 * 60 * 60 * 1000
TemperatureHorizon == 24 * 60 * 60 * 1000
WindHorizon == 12 * 60 * 60 * 1000
FloodHorizon == 6 * 60 * 60 * 1000

REFRESH_INTERVAL == 5 * 60 * 1000

\* The delay of the search box (line 86 of LocationSearch.tsx).
DEBOUNCE_DELAY == 500

----------------------------------------------------------------------------
(* Date: toISOString and the Date constructor on an ISO string *)

MsPerDay == 24 * 60 * 60 * 1000

\* new Date(t).toISOString(): the instant as day, hour, minute, second, ms.
toISOString(t) ==
    [ day |-> t \div MsPerDay,
      hh  |-> (t % MsPerDay) \div 3600000,
      mm  |-> (t % 3600000) \div 60000,
      ss  |-> (t % 60000) \div 1000,
      ms  |-> t % 1000 ]

\* new Date(iso).getTime()
DateParse(iso) ==
    iso.day * MsPerDay + iso.hh * 3600000 + iso.mm * 60000 + iso.ss * 1000 + iso.ms

----------------------------------------------------------------------------
(* Rounding *)

\* Math.round rounds to the nearest integer, a half upwards: floor(x + 1/2).
\* Math.round(x * 10) / 10 for x given in thousandths: the result in tenths.
RoundTenths(x) == (x + 50) \div 100

\* Math.round(x) for x given in thousandths: the result in units.
RoundUnits(x) == (x + 500) \div 1000

\* Math.round(x * 10) / 10 for x given in ten-thousandths: the result in tenths.
RoundTenthsFine(x) == (x + 500) \div 1000

----------------------------------------------------------------------------
(* Bounding boxes *)

getIndianLocationInfo(lat, lng) ==
    IF lat >= 280 /\ lat <= 370 /\ lng >= 740 /\ lng <= 800
      THEN [state |-> "Himachal Pradesh", city |-> "Shimla", region |-> "Northern India"]
    ELSE IF lat >= 280 /\ lat <= 310 /\ lng >= 750 /\ lng <= 780
      THEN [state |-> "Rajasthan", city |-> "Jaipur", region |-> "Northern India"]
    ELSE IF lat >= 180 /\ lat <= 200 /\ lng >= 720 /\ lng <= 750
      THEN [state |-> "Maharashtra", city |-> "Mumbai", region |-> "Western India"]
    ELSE IF lat >= 120 /\ lat <= 160 /\ lng >= 740 /\ lng <= 780
      THEN [state |-> "Karnataka", city |-> "Bangalore", region |-> "Southern India"]
    ELSE IF lat >= 80 /\ lat <= 120 /\ lng >= 760 /\ lng <= 780
      THEN [state |-> "Tamil Nadu", city |-> "Chennai", region |-> "Southern India"]
    ELSE IF lat >= 80 /\ lat <= 120 /\ lng >= 740 /\ lng <= 770
      THEN [state |-> "Kerala", city |-> "Kochi", region |-> "Southern India"]
    ELSE IF lat >= 220 /\ lat <= 270 /\ lng >= 870 /\ lng <= 890
      THEN [state |-> "West Bengal", city |-> "Kolkata", region |-> "Eastern India"]
    ELSE IF lat >= 210 /\ lat <= 240 /\ lng >= 680 /\ lng <= 740
      THEN [state |-> "Gujarat", city |-> "Ahmedabad", region |-> "Western India"]
    ELSE IF lat >= 240 /\ lat <= 280 /\ lng >= 770 /\ lng <= 840
      THEN [state |-> "Uttar Pradesh", city |-> "Lucknow", region |-> "Northern India"]
    ELSE IF lat >= 210 /\ lat <= 260 /\ lng >= 740 /\ lng <= 820
      THEN [state |-> "Madhya Pradesh", city |-> "Bhopal", region |-> "Central India"]
    ELSE IF lat >= 290 /\ lat <= 310 /\ lng >= 770 /\ lng <= 810
      THEN [state |-> "Uttarakhand", city |-> "Dehradun", region |-> "Northern India"]
    ELSE IF lat >= 240 /\ lat <= 280 /\ lng >= 890 /\ lng <= 960
      THEN [state |-> "Assam", city |-> "Guwahati", region |-> "North-Eastern India"]
    ELSE [state |-> "Maharashtra", city |-> "Mumbai", region |-> "Western India"]

isCoastalArea(lat, lng) ==
    \/ (lng <= 730 /\ lat >= 80 /\ lat <= 230)
    \/ (lng >= 790 /\ lat >= 80 /\ lat <= 200)
    \/ (lat <= 100)

isHillStation(lat, lng) ==
    \/ (lat >= 300 /\ lng >= 760 /\ lng <= 800)
    \/ (lat >= 290 /\ lat <= 310 /\ lng >= 780 /\ lng <= 800)
    \/ (lat >= 110 /\ lat <= 120 /\ lng >= 760 /\ lng <= 770)
    \/ (lat >= 150 /\ lat <= 160 /\ lng >= 730 /\ lng <= 740)

\* A faulty variant of isHimalayanRegion: the box starts at latitude 30.
isHimalayanRegion_Above30(lat, lng) == lat >= 300 /\ lng >= 740 /\ lng <= 950

isHimalayanRegion(lat, lng) == lat >= 280 /\ lng >= 740 /\ lng <= 950

isWesternGhats(lat, lng) == lat >= 80 /\ lat <= 210 /\ lng >= 730 /\ lng <= 770

isDeccanPlateau(lat, lng) == lat >= 120 /\ lat <= 240 /\ lng >= 740 /\ lng <= 840

isGangticPlain(lat, lng) == lat >= 240 /\ lat <= 300 /\ lng >= 770 /\ lng <= 880

----------------------------------------------------------------------------
(* The synthesizer.  rnd names the Math.random() draws by the field they   *)
(* feed (seismicActivity is computed in ten-thousandths, the rest in       *)
(* thousandths); the fields no hazard check reads (pressure,               *)
(* windDirection, visibility, uvIndex, condition, icon, forecast,          *)
(* lastUpdated) are left out of the reading.                               *)

WeatherDraws(levels) == [precip : levels, humid : levels, temp : levels, wind : levels]

GeoDraws(levels) ==
    [soil : levels, rain : levels, slope : levels, seismic : levels, stability : levels]

\* A faulty variant of SeasonalWeather: the winter base temperature is
\* -10 to 5 degrees (for 15 to 30).
SeasonalWeather_ColdWinter(currentMonth, rnd) ==
    IF currentMonth \in MONSOON_MONTHS
      THEN [precipitation |-> 15000 + rnd.precip * 85,
            humidity      |-> 75000 + rnd.humid * 20,
            baseTemp      |-> 26000 + rnd.temp * 8]
    ELSE IF currentMonth \in SUMMER_MONTHS
      THEN [precipitation |-> rnd.precip * 5,
            humidity      |-> 40000 + rnd.humid * 25,
            baseTemp      |-> 35000 + rnd.temp * 12]
    ELSE IF currentMonth \in WINTER_MONTHS
      THEN [precipitation |-> rnd.precip * 8,
            humidity      |-> 50000 + rnd.humid * 30,
            baseTemp      |-> rnd.temp * 15 - 10000]
    ELSE [precipitation |-> rnd.precip * 15,
          humidity      |-> 55000 + rnd.humid * 25,
          baseTemp      |-> 28000 + rnd.temp * 10]

\* A faulty variant of SeasonalWeather: the summer rainfall is up to 50 mm/hr
\* (for 5).
SeasonalWeather_WetSummer(currentMonth, rnd) ==
    IF currentMonth \in MONSOON_MONTHS
      THEN [precipitation |-> 15000 + rnd.precip * 85,
            humidity      |-> 75000 + rnd.humid * 20,
            baseTemp      |-> 26000 + rnd.temp * 8]
    ELSE IF currentMonth \in SUMMER_MONTHS
      THEN [precipitation |-> rnd.precip * 50,
            humidity      |-> 40000 + rnd.humid * 25,
            baseTemp      |-> 35000 + rnd.temp * 12]
    ELSE IF currentMonth \in WINTER_MONTHS
      THEN [precipitation |-> rnd.precip * 8,
            humidity      |-> 50000 + rnd.humid * 30,
            baseTemp      |-> 15000 + rnd.temp * 15]
    ELSE [precipitation |-> rnd.precip * 15,
          humidity      |-> 55000 + rnd.humid * 25,
          baseTemp      |-> 28000 + rnd.temp * 10]

\* The seasonal base values, in thousandths (lines 318-346).
SeasonalWeather(currentMonth, rnd) ==
    IF currentMonth \in MONSOON_MONTHS
      THEN [precipitation |-> 15000 + rnd.precip * 85,
            humidity      |-> 75000 + rnd.humid * 20,
            baseTemp      |-> 26000 + rnd.temp * 8]
    ELSE IF currentMonth \in SUMMER_MONTHS
      THEN [precipitation |-> rnd.precip * 5,
            humidity      |-> 40000 + rnd.humid * 25,
            baseTemp      |-> 35000 + rnd.temp * 12]
    ELSE IF currentMonth \in WINTER_MONTHS
      THEN [precipitation |-> rnd.precip * 8,
            humidity      |-> 50000 + rnd.humid * 30,
            baseTemp      |-> 15000 + rnd.temp * 15]
    ELSE [precipitation |-> rnd.precip * 15,
          humidity      |-> 55000 + rnd.humid * 25,
          baseTemp      |-> 28000 + rnd.temp * 10]

generateIndianWeatherData(lat, lng, currentMonth, rnd) ==
    LET info == getIndianLocationInfo(lat, lng)
        s == SeasonalWeather(currentMonth, rnd)
        \* Regional adjustments (lines 349-359)
        tempNorth == IF lat > 300
                       THEN -5000 - (IF currentMonth \in WINTER_MONTHS THEN 8000 ELSE 0)
                     ELSE IF lat < 150 THEN 2000 ELSE 0
        humidSouth == IF lat > 300 THEN 0 ELSE IF lat < 150 THEN 10000 ELSE 0
        \* Coastal adjustments (lines 362-365)
        coastal == isCoastalArea(lat, lng)
        \* Hill station adjustments (lines 368-373)
        hill == isHillStation(lat, lng)
        baseTemp == s.baseTemp + tempNorth
                      - (IF coastal THEN 2000 ELSE 0) - (IF hill THEN 10000 ELSE 0)
        humidity == s.humidity + humidSouth + (IF coastal THEN 15000 ELSE 0)
        precipitation == s.precipitation + (IF hill THEN 5000 ELSE 0)
    IN  [ location |-> [city |-> info.city, region |-> info.region,
                        country |-> "India", coordinates |-> [lat |-> lat, lng |-> lng]],
          current  |-> [temperature   |-> RoundTenths(baseTemp),
                        humidity      |-> RoundUnits(humidity),
                        windSpeed     |-> rnd.wind * 25 + 5000,
                        precipitation |-> RoundTenths(precipitation)] ]

\* A faulty variant of generateIndianGeologicalData: the Gangetic Plain box is
\* tested before the other three.
generateIndianGeologicalData_GangeticFirst(lat, lng, currentMonth, rnd) ==
    LET info == getIndianLocationInfo(lat, lng)
        monsoon == currentMonth \in MONSOON_MONTHS
        soil0 == IF monsoon THEN 60000 + rnd.soil * 35 ELSE 20000 + rnd.soil * 40
        recentRainfall == IF monsoon THEN 50000 + rnd.rain * 150 ELSE rnd.rain * 30
        r == IF isGangticPlain(lat, lng)
               THEN [slopeAngle       |-> 500 + rnd.slope * 3,
                     seismicActivity  |-> 1000 + rnd.seismic * 5,
                     terrainStability |-> 85000 + rnd.stability * 15,
                     soilMoisture     |-> soil0 + 15000]
             ELSE IF isHimalayanRegion(lat, lng)
               THEN [slopeAngle       |-> 25000 + rnd.slope * 20,
                     seismicActivity  |-> 15000 + rnd.seismic * 25,
                     terrainStability |-> 50000 + rnd.stability * 30,
                     soilMoisture     |-> soil0]
             ELSE IF isWesternGhats(lat, lng)
               THEN [slopeAngle       |-> 15000 + rnd.slope * 15,
                     seismicActivity  |-> 5000 + rnd.seismic * 15,
                     terrainStability |-> 60000 + rnd.stability * 25,
                     soilMoisture     |-> soil0]
             ELSE IF isDeccanPlateau(lat, lng)
               THEN [slopeAngle       |-> 2000 + rnd.slope * 8,
                     seismicActivity  |-> 2000 + rnd.seismic * 8,
                     terrainStability |-> 75000 + rnd.stability * 20,
                     soilMoisture     |-> soil0]
             ELSE [slopeAngle       |-> 5000,
                   seismicActivity  |-> 5000,
                   terrainStability |-> 85000,
                   soilMoisture     |-> soil0]
    IN  [ location         |-> [lat |-> lat, lng |-> lng, region |-> info.region],
          soilMoisture     |-> RoundUnits(r.soilMoisture),
          slopeAngle       |-> RoundTenths(r.slopeAngle),
          recentRainfall   |-> RoundTenths(recentRainfall),
          seismicActivity  |-> RoundTenthsFine(r.seismicActivity),
          terrainStability |-> RoundUnits(r.terrainStability) ]

generateIndianGeologicalData(lat, lng, currentMonth, rnd) ==
    LET info == getIndianLocationInfo(lat, lng)
        monsoon == currentMonth \in MONSOON_MONTHS
        soil0 == IF monsoon THEN 60000 + rnd.soil * 35 ELSE 20000 + rnd.soil * 40
        recentRainfall == IF monsoon THEN 50000 + rnd.rain * 150 ELSE rnd.rain * 30
        r == IF isHimalayanRegion(lat, lng)
               THEN [slopeAngle       |-> 25000 + rnd.slope * 20,
                     seismicActivity  |-> 15000 + rnd.seismic * 25,
                     terrainStability |-> 50000 + rnd.stability * 30,
                     soilMoisture     |-> soil0]
             ELSE IF isWesternGhats(lat, lng)
               THEN [slopeAngle       |-> 15000 + rnd.slope * 15,
                     seismicActivity  |-> 5000 + rnd.seismic * 15,
                     terrainStability |-> 60000 + rnd.stability * 25,
                     soilMoisture     |-> soil0]
             ELSE IF isDeccanPlateau(lat, lng)
               THEN [slopeAngle       |-> 2000 + rnd.slope * 8,
                     seismicActivity  |-> 2000 + rnd.seismic * 8,
                     terrainStability |-> 75000 + rnd.stability * 20,
                     soilMoisture     |-> soil0]
             ELSE IF isGangticPlain(lat, lng)
               THEN [slopeAngle       |-> 500 + rnd.slope * 3,
                     seismicActivity  |-> 1000 + rnd.seismic * 5,
                     terrainStability |-> 85000 + rnd.stability * 15,
                     soilMoisture     |-> soil0 + 15000]
             ELSE [slopeAngle       |-> 5000,
                   seismicActivity  |-> 5000,
                   terrainStability |-> 85000,
                   soilMoisture     |-> soil0]
    IN  [ location         |-> [lat |-> lat, lng |-> lng, region |-> info.region],
          soilMoisture     |-> RoundUnits(r.soilMoisture),
          slopeAngle       |-> RoundTenths(r.slopeAngle),
          recentRainfall   |-> RoundTenths(recentRainfall),
          seismicActivity  |-> RoundTenthsFine(r.seismicActivity),
          terrainStability |-> RoundUnits(r.terrainStability) ]

----------------------------------------------------------------------------
(* The classifier *)

\* A faulty variant of assessLandslideRisk: the severity bands open at their
\* lower ends (> for >=).
\* A faulty variant of assessLandslideRisk: the heaviest rain step starts at
\* 60 mm/hr (for 50).
assessLandslideRisk_Rain60(weather, geological) ==
    LET rain == IF weather.current.precipitation > 600 THEN 40
                ELSE IF weather.current.precipitation > 250 THEN 25
                ELSE IF weather.current.precipitation > 100 THEN 15 ELSE 0
        soil == IF geological.soilMoisture > 80 THEN 30
                ELSE IF geological.soilMoisture > 60 THEN 20
                ELSE IF geological.soilMoisture > 40 THEN 10 ELSE 0
        slope == IF geological.slopeAngle > 300 THEN 20
                 ELSE IF geological.slopeAngle > 200 THEN 15
                 ELSE IF geological.slopeAngle > 150 THEN 10 ELSE 0
        seismic == IF geological.seismicActivity > 30 THEN 10
                   ELSE IF geological.seismicActivity > 20 THEN 5 ELSE 0
        riskScore == rain + soil + slope + seismic
        severity == IF riskScore >= 80 THEN "Critical"
                    ELSE IF riskScore >= 60 THEN "High"
                    ELSE IF riskScore >= 40 THEN "Moderate" ELSE "Low"
    IN  [severity |-> severity, score |-> riskScore]

\* A faulty variant of assessLandslideRisk: seismic activity counts only
\* where the slope contributes nothing.
assessLandslideRisk_Chained(weather, geological) ==
    LET rain == IF weather.current.precipitation > 500 THEN 40
                ELSE IF weather.current.precipitation > 250 THEN 25
                ELSE IF weather.current.precipitation > 100 THEN 15 ELSE 0
        soil == IF geological.soilMoisture > 80 THEN 30
                ELSE IF geological.soilMoisture > 60 THEN 20
                ELSE IF geological.soilMoisture > 40 THEN 10 ELSE 0
        terrain == IF geological.slopeAngle > 300 THEN 20
                   ELSE IF geological.slopeAngle > 200 THEN 15
                   ELSE IF geological.slopeAngle > 150 THEN 10
                   ELSE IF geological.seismicActivity > 30 THEN 10
                   ELSE IF geological.seismicActivity > 20 THEN 5 ELSE 0
        riskScore == rain + soil + terrain
        severity == IF riskScore >= 80 THEN "Critical"
                    ELSE IF riskScore >= 60 THEN "High"
                    ELSE IF riskScore >= 40 THEN "Moderate" ELSE "Low"
    IN  [severity |-> severity, score |-> riskScore]

assessLandslideRisk_Gt(weather, geological) ==
    LET rain == IF weather.current.precipitation > 500 THEN 40
                ELSE IF weather.current.precipitation > 250 THEN 25
                ELSE IF weather.current.precipitation > 100 THEN 15 ELSE 0
        soil == IF geological.soilMoisture > 80 THEN 30
                ELSE IF geological.soilMoisture > 60 THEN 20
                ELSE IF geological.soilMoisture > 40 THEN 10 ELSE 0
        slope == IF geological.slopeAngle > 300 THEN 20
                 ELSE IF geological.slopeAngle > 200 THEN 15
                 ELSE IF geological.slopeAngle > 150 THEN 10 ELSE 0
        seismic == IF geological.seismicActivity > 30 THEN 10
                   ELSE IF geological.seismicActivity > 20 THEN 5 ELSE 0
        riskScore == rain + soil + slope + seismic
        severity == IF riskScore > 80 THEN "Critical"
                    ELSE IF riskScore > 60 THEN "High"
                    ELSE IF riskScore > 40 THEN "Moderate" ELSE "Low"
    IN  [severity |-> severity, score |-> riskScore]

assessLandslideRisk(weather, geological) ==
    LET rain == IF weather.current.precipitation > 500 THEN 40
                ELSE IF weather.current.precipitation > 250 THEN 25
                ELSE IF weather.current.precipitation > 100 THEN 15 ELSE 0
        soil == IF geological.soilMoisture > 80 THEN 30
                ELSE IF geological.soilMoisture > 60 THEN 20
                ELSE IF geological.soilMoisture > 40 THEN 10 ELSE 0
        slope == IF geological.slopeAngle > 300 THEN 20
                 ELSE IF geological.slopeAngle > 200 THEN 15
                 ELSE IF geological.slopeAngle > 150 THEN 10 ELSE 0
        seismic == IF geological.seismicActivity > 30 THEN 10
                   ELSE IF geological.seismicActivity > 20 THEN 5 ELSE 0
        riskScore == rain + soil + slope + seismic
        severity == IF riskScore >= 80 THEN "Critical"
                    ELSE IF riskScore >= 60 THEN "High"
                    ELSE IF riskScore >= 40 THEN "Moderate" ELSE "Low"
    IN  [severity |-> severity, score |-> riskScore]

\* The three clock readings one create...Alert call takes, in the order of
\* the source: Date.now() for the id, new Date() for timestamp, Date.now()
\* for expiresAt.  clk[i] is the value of the i-th clock reading of the
\* running handler; first is the index of this call's first reading.
AlertTimes(clk, first) ==
    [id |-> clk[first], timestamp |-> clk[first + 1], expiresAt |-> clk[first + 2]]

AlertLocation(weather, locationName) ==
    [ city        |-> locationName,
      region      |-> weather.location.region,
      coordinates |-> weather.location.coordinates ]

createLandslideAlert(risk, weather, geological, locationName, t, suffix) ==
    [ id        |-> <<"landslide", t.id, suffix>>,
      type      |-> "landslide",
      severity  |-> risk.severity,
      location  |-> AlertLocation(weather, locationName),
      title     |-> <<"Landslide", risk.severity, "Risk Alert">>,
      timestamp |-> toISOString(t.timestamp),
      expiresAt |-> toISOString(t.expiresAt + LandslideHorizon) ]

createTemperatureAlert(weather, locationName, t, suffix) ==
    LET isHot == weather.current.temperature > 400
    IN  [ id        |-> <<"temp", t.id, suffix>>,
          type      |-> "temperature_extreme",
          severity  |-> IF isHot THEN "High" ELSE "Moderate",
          location  |-> AlertLocation(weather, locationName),
          title     |-> <<"Extreme", IF isHot THEN "Heat" ELSE "Cold", "Warning">>,
          timestamp |-> toISOString(t.timestamp),
          expiresAt |-> toISOString(t.expiresAt + TemperatureHorizon) ]

createWindAlert(weather, locationName, t, suffix) ==
    [ id        |-> <<"wind", t.id, suffix>>,
      type      |-> "high_wind",
      severity  |-> IF weather.current.windSpeed > 35000 THEN "High" ELSE "Moderate",
      location  |-> AlertLocation(weather, locationName),
      title     |-> <<"High Wind Advisory">>,
      timestamp |-> toISOString(t.timestamp),
      expiresAt |-> toISOString(t.expiresAt + WindHorizon) ]

createFloodAlert(weather, locationName, t, suffix) ==
    [ id        |-> <<"flood", t.id, suffix>>,
      type      |-> "flash_flood",
      severity  |-> IF weather.current.precipitation > 500 THEN "Critical" ELSE "High",
      location  |-> AlertLocation(weather, locationName),
      title     |-> <<"Flash Flood Warning">>,
      timestamp |-> toISOString(t.timestamp),
      expiresAt |-> toISOString(t.expiresAt + FloodHorizon) ]

\* A faulty variant of assessWeatherHazards: the thresholds themselves fire
\* (>= for >, <= for <).
assessWeatherHazards_Gte(weather, locationName, clk, first, suffix) ==
    LET tempFires == weather.current.temperature >= 400
                       \/ weather.current.temperature <= -200
        windFires == weather.current.windSpeed >= 25000
        floodFires == weather.current.precipitation >= 250
        a1 == IF tempFires
                THEN <<createTemperatureAlert(weather, locationName,
                                              AlertTimes(clk, first), suffix)>>
                ELSE <<>>
        f2 == first + (IF tempFires THEN 3 ELSE 0)
        a2 == IF windFires
                THEN Append(a1, createWindAlert(weather, locationName,
                                                AlertTimes(clk, f2), suffix))
                ELSE a1
        f3 == f2 + (IF windFires THEN 3 ELSE 0)
        a3 == IF floodFires
                THEN Append(a2, createFloodAlert(weather, locationName,
                                                 AlertTimes(clk, f3), suffix))
                ELSE a2
    IN  a3

\* assessWeatherHazards: first is the index of the handler's next clock
\* reading when it is called.
assessWeatherHazards(weather, locationName, clk, first, suffix) ==
    LET tempFires == weather.current.temperature > 400
                       \/ weather.current.temperature < -200
        windFires == weather.current.windSpeed > 25000
        floodFires == weather.current.precipitation > 250
        a1 == IF tempFires
                THEN <<createTemperatureAlert(weather, locationName,
                                              AlertTimes(clk, first), suffix)>>
                ELSE <<>>
        f2 == first + (IF tempFires THEN 3 ELSE 0)
        a2 == IF windFires
                THEN Append(a1, createWindAlert(weather, locationName,
                                                AlertTimes(clk, f2), suffix))
                ELSE a1
        f3 == f2 + (IF windFires THEN 3 ELSE 0)
        a3 == IF floodFires
                THEN Append(a2, createFloodAlert(weather, locationName,
                                                 AlertTimes(clk, f3), suffix))
                ELSE a2
    IN  a3

----------------------------------------------------------------------------
(* State *)

VARIABLES
    now,         \* the clock: what Date.now() returns
    ticks,       \* how many times the clock has advanced
    ncalls,      \* how many times generateAlerts has been called
    month,       \* new Date().getMonth() + 1
    dataCache,   \* WeatherService.dataCache: key -> [data, timestamp]
    alertCache,  \* WeatherService.alertCache, in insertion order
    calls,       \* the frames of the generateAlerts calls in flight
    panel,       \* the WeatherPanel component: its prop, its timer, its state
    ret,         \* what the step just taken returned to its caller, if anything
    purged,      \* whether clearExpiredAlerts has run with no insertion since:
                 \* "no", "earlier" (the clock has moved since) or "now"
    search,      \* the LocationSearch component: its state, its debounce timer,
                 \* its requests in flight
    app          \* the App component: its state, its timers, its requests in
                 \* flight

vars ==
    <<now, ticks, ncalls, month, dataCache, alertCache, calls, panel, ret, purged,
      search, app>>

NoData == [none |-> TRUE]
NoLocation == [none |-> TRUE]
NoRet == [op |-> "none"]
NoTimer == -1

\* LocationSearch when it is mounted (lines 29-32): its four pieces of
\* state; window.searchTimeout; the timeouts pending in the browser, each
\* with the value its callback closes over; the requests in flight, numbered
\* in the order searchLocation was called; and, to state properties, the
\* number of searchLocation calls so far (issued) and the last input change
\* (typed).
InitialSearch ==
    [ query |-> "", results |-> <<>>, isLoading |-> FALSE, showResults |-> FALSE,
      searchTimeout |-> NoTimer, timers |-> {}, ntimers |-> 0,
      requests |-> {}, issued |-> 0,
      typed |-> [value |-> "", at |-> 0] ]

\* The state of the App after its first render (lines 32-58).  A marker is
\* its id and title; the position and the description, which no handler
\* reads back, and the centre, zoom and selection of the map are left out.
\* expected is a history field: the list a run without lost updates holds.
InitialMarkers ==
    << [id |-> 1, title |-> "New York City"],
       [id |-> 2, title |-> "Los Angeles"],
       [id |-> 3, title |-> "Chicago"] >>

InitialApp ==
    [ markers |-> InitialMarkers, searchQuery |-> "",
      isSearching |-> FALSE, isAddingMarker |-> FALSE,
      timers |-> {}, ntimers |-> 0,
      requests |-> {}, nsearches |-> 0, ndeletes |-> 0,
      expected |-> InitialMarkers ]

\* A frame: the arguments and locals of one generateAlerts call, whether each
\* reading was computed by this call (or came from the cache), and, for a call
\* made by WeatherPanel.fetchWeatherData, the reading that run got itself
\* from getWeatherData (line 35 of WeatherPanel.tsx).
IdleFrame ==
    [ pc |-> "idle", owner |-> "none", loc |-> NoLocation,
      weatherData |-> NoData, weatherComputed |-> FALSE,
      geologicalData |-> NoData, geologicalComputed |-> FALSE,
      landslideRisk |-> NoData, alerts |-> <<>>, panelWeather |-> NoData ]

\* The frame a new call takes: frames are interchangeable, so the lowest free.
FreeFrame ==
    CHOOSE p \in Procs :
        calls[p].pc = "idle" /\ \A q \in Procs : calls[q].pc = "idle" => p <= q

HasFreeFrame == \E p \in Procs : calls[p].pc = "idle"

\* No call is in flight: the microtask queue is empty, so that the event loop
\* can run its next task (a timer, a render) and minutes can pass.  Between
\* the awaits of a call in flight, which wait for promises already settled,
\* only the continuations of other calls run, and the clock moves by no more
\* than ClockDrift.
Quiescent == \A p \in Procs : calls[p].pc = "idle"

----------------------------------------------------------------------------
(* The clock inside a handler.  A handler runs to its next await without   *)
(* interruption, but the wall clock may move while it runs: its clock      *)
(* readings 1, 2, ... are non-decreasing, and here the clock moves by d    *)
(* just before reading k.                                                  *)

\* The most clock readings one handler takes: four alerts, three each.
MaxReads == 4 * 3

Readings(t, k, d) == [i \in 1..MaxReads |-> IF i >= k THEN t + d ELSE t]

\* The clock moved by d during the step.
Advance(d) ==
    /\ d > 0 => ticks < MaxTicks
    /\ now' = now + d
    /\ ticks' = IF d > 0 THEN ticks + 1 ELSE ticks

\* purged after a step during which the clock moved by d and which inserted
\* alerts or not: "now" says clearExpiredAlerts ran at this very clock value.
Purged(d, inserted) ==
    IF inserted THEN "no"
    ELSE IF d > 0 /\ purged = "now" THEN "earlier" ELSE purged

----------------------------------------------------------------------------
(* The two caches *)

\* A faulty variant of cacheKey: the coordinates are left out of the key.
cacheKey_KindOnly(kind, lat, lng) == <<kind>>

cacheKey(kind, lat, lng) == <<kind, lat, lng>>

\* Map.prototype.set on dataCache
DataCacheSet(cache, key, entry) ==
    [x \in (DOMAIN cache) \cup {key} |-> IF x = key THEN entry ELSE cache[x]]

\* Map.prototype.set on alertCache: a new key goes last, an old one keeps its place.
AlertCacheSet(cache, alert) ==
    IF \E i \in 1..Len(cache) : cache[i].id = alert.id
      THEN [i \in 1..Len(cache) |-> IF cache[i].id = alert.id THEN alert ELSE cache[i]]
      ELSE Append(cache, alert)

\* A faulty variant of AlertCacheSetAll: the new alerts take the place of the
\* cached ones.
AlertCacheSetAll_Replacing(cache, alerts) == alerts

RECURSIVE AlertCacheSetAll(_, _)
\* alerts.forEach(alert => this.alertCache.set(alert.id, alert))
AlertCacheSetAll(cache, alerts) ==
    IF alerts = <<>> THEN cache
    ELSE AlertCacheSetAll(AlertCacheSet(cache, Head(alerts)), Tail(alerts))

\* A faulty variant of IsFresh: an entry written at this very clock value
\* does not count yet.
IsFresh_Aged(cache, key, t) ==
    key \in DOMAIN cache /\ t - cache[key].timestamp < CACHE_DURATION
                         /\ t > cache[key].timestamp

\* A faulty variant of IsFresh: an entry exactly as old as the TTL still counts.
IsFresh_Lte(cache, key, t) ==
    key \in DOMAIN cache /\ t - cache[key].timestamp <= CACHE_DURATION

\* The test of lines 39 and 63: the entry exists and is younger than the TTL.
IsFresh(cache, key, t) ==
    key \in DOMAIN cache /\ t - cache[key].timestamp < CACHE_DURATION

\* getWeatherData: tCheck is Date.now() of line 39, tStore that of line 49.
getWeatherData(cache, lat, lng, tCheck, tStore, currentMonth, rnd) ==
    LET key == cacheKey("weather", lat, lng)
    IN  IF IsFresh(cache, key, tCheck)
          THEN [data |-> cache[key].data, cache |-> cache, computed |-> FALSE]
          ELSE LET weatherData == generateIndianWeatherData(lat, lng, currentMonth, rnd)
               IN  [ data  |-> weatherData,
                     cache |-> DataCacheSet(cache, key,
                                   [data |-> weatherData, timestamp |-> tStore]),
                     computed |-> TRUE ]

\* getGeologicalData: tCheck is Date.now() of line 63, tStore that of line 73.
getGeologicalData(cache, lat, lng, tCheck, tStore, currentMonth, rnd) ==
    LET key == cacheKey("geological", lat, lng)
    IN  IF IsFresh(cache, key, tCheck)
          THEN [data |-> cache[key].data, cache |-> cache, computed |-> FALSE]
          ELSE LET geologicalData == generateIndianGeologicalData(lat, lng, currentMonth, rnd)
               IN  [ data  |-> geologicalData,
                     cache |-> DataCacheSet(cache, key,
                                   [data |-> geologicalData, timestamp |-> tStore]),
                     computed |-> TRUE ]

\* A faulty variant of getActiveAlerts: an alert expiring now still counts.
getActiveAlerts_Gte(cache, t) ==
    SelectSeq(cache, LAMBDA alert : DateParse(alert.expiresAt) >= t)

\* getActiveAlerts with t the value of new Date() of line 528.
getActiveAlerts(cache, t) ==
    SelectSeq(cache, LAMBDA alert : DateParse(alert.expiresAt) > t)

RECURSIVE clearExpiredAlerts_Lt(_, _, _)
\* A faulty variant of clearExpiredAlerts: an alert expiring now is kept.
clearExpiredAlerts_Lt(cache, t, i) ==
    IF i > Len(cache) THEN cache
    ELSE IF DateParse(cache[i].expiresAt) < t
      THEN clearExpiredAlerts_Lt(SubSeq(cache, 1, i - 1) \o SubSeq(cache, i + 1, Len(cache)),
                                 t, i)
      ELSE clearExpiredAlerts_Lt(cache, t, i + 1)

RECURSIVE clearExpiredAlerts_Skip(_, _, _)
\* A faulty variant of clearExpiredAlerts: the loop steps on after a delete
\* and so skips the entry that moved into the place of the deleted one.
clearExpiredAlerts_Skip(cache, t, i) ==
    IF i > Len(cache) THEN cache
    ELSE IF DateParse(cache[i].expiresAt) <= t
      THEN clearExpiredAlerts_Skip(SubSeq(cache, 1, i - 1) \o SubSeq(cache, i + 1, Len(cache)),
                                   t, i + 1)
      ELSE clearExpiredAlerts_Skip(cache, t, i + 1)

RECURSIVE clearExpiredAlerts(_, _, _)
\* clearExpiredAlerts with t the value of new Date() of line 535: the loop
\* visits the entries in insertion order, i is the entry it is at; deleting
\* the entry it is at moves the later ones up and skips none.
clearExpiredAlerts(cache, t, i) ==
    IF i > Len(cache) THEN cache
    ELSE IF DateParse(cache[i].expiresAt) <= t
      THEN clearExpiredAlerts(SubSeq(cache, 1, i - 1) \o SubSeq(cache, i + 1, Len(cache)),
                              t, i)
      ELSE clearExpiredAlerts(cache, t, i + 1)

----------------------------------------------------------------------------
(* The Math.random() streams of the main specification: every draw of one  *)
(* handler run is at the same level.                                       *)

MainWeatherDraws ==
    { [precip |-> v, humid |-> v, temp |-> v, wind |-> v] : v \in RandLevels }

MainGeoDraws ==
    { [soil |-> v, rain |-> v, slope |-> v, seismic |-> v, stability |-> v] :
          v \in RandLevels }

----------------------------------------------------------------------------
(* Initial state: the module has just been loaded, no location selected.   *)

Init ==
    /\ now = 0
    /\ ticks = 0
    /\ ncalls = 0
    /\ month \in StartMonths
    /\ dataCache = <<>>
    /\ alertCache = <<>>
    /\ calls = [p \in Procs |-> IdleFrame]
    /\ panel = [location |-> NoLocation, timer |-> NoTimer,
                weatherData |-> NoData, alerts |-> <<>>]
    /\ ret = NoRet
    /\ purged = "no"
    /\ search = InitialSearch
    /\ app = InitialApp

----------------------------------------------------------------------------
(* Actions *)

\* Time passes between two events.
Tick ==
    \E d \in TickSteps :
        /\ Quiescent
        /\ ticks < MaxTicks
        /\ now' = now + d
        /\ ticks' = ticks + 1
        /\ purged' = Purged(d, FALSE)
        /\ ret' = NoRet
        /\ UNCHANGED <<search, app, ncalls, month, dataCache, alertCache, calls, panel>>

\* Some caller calls weatherService.generateAlerts(lat, lng, locationName):
\* generateAlerts up to its first await (line 84), the call of getWeatherData.
generateAlerts_callWith(locations, draws, limit) ==
    \E loc \in locations, rnd \in draws, k \in DriftReads, d \in ClockDrift :
        LET p == FreeFrame
            clk == Readings(now, k, d)
            r == getWeatherData(dataCache, loc.lat, loc.lng, clk[1], clk[2], month, rnd)
        IN  /\ HasFreeFrame
            /\ ncalls < limit
            /\ ncalls' = ncalls + 1
            /\ Advance(d)
            /\ dataCache' = r.cache
            /\ calls' = [calls EXCEPT ![p] =
                            [IdleFrame EXCEPT !.pc = "geo", !.owner = "caller",
                                              !.loc = loc, !.weatherData = r.data,
                                              !.weatherComputed = r.computed]]
            /\ ret' = NoRet
            /\ purged' = Purged(d, FALSE)
            /\ UNCHANGED <<search, app, month, alertCache, panel>>

generateAlerts_call == generateAlerts_callWith(Locations, MainWeatherDraws, MaxCalls)

\* generateAlerts from its first await to its second (line 85).
generateAlerts_geoWith(p, draws) ==
    \E rnd \in draws, k \in DriftReads, d \in ClockDrift :
        LET loc == calls[p].loc
            clk == Readings(now, k, d)
            r == getGeologicalData(dataCache, loc.lat, loc.lng, clk[1], clk[2], month, rnd)
        IN  /\ calls[p].pc = "geo"
            /\ Advance(d)
            /\ dataCache' = r.cache
            /\ calls' = [calls EXCEPT ![p].pc = "assess", ![p].geologicalData = r.data,
                                      ![p].geologicalComputed = r.computed]
            /\ ret' = NoRet
            /\ purged' = Purged(d, FALSE)
            /\ UNCHANGED <<search, app, ncalls, month, alertCache, panel>>

generateAlerts_geo(p) == generateAlerts_geoWith(p, MainGeoDraws)

\* A faulty variant of GeneratedAlerts: the weather hazards are assessed
\* before the landslide risk.
GeneratedAlerts_WeatherFirst(weatherData, geologicalData, locationName, clk, suffix) ==
    LET hazards == assessWeatherHazards(weatherData, locationName, clk, 1, suffix)
        landslideRisk == assessLandslideRisk(weatherData, geologicalData)
    IN  IF landslideRisk.severity # "Low"
          THEN Append(hazards,
                      createLandslideAlert(landslideRisk, weatherData, geologicalData,
                                           locationName, AlertTimes(clk, MaxReads - 2),
                                           suffix))
          ELSE hazards

\* The alerts generateAlerts builds (lines 87-97).
GeneratedAlerts(weatherData, geologicalData, locationName, clk, suffix) ==
    LET landslideRisk == assessLandslideRisk(weatherData, geologicalData)
        alerts == IF landslideRisk.severity # "Low"
                    THEN <<createLandslideAlert(landslideRisk, weatherData, geologicalData,
                                                locationName, AlertTimes(clk, 1), suffix)>>
                    ELSE <<>>
        first == IF landslideRisk.severity # "Low" THEN 4 ELSE 1
    IN  alerts \o assessWeatherHazards(weatherData, locationName, clk, first, suffix)

\* generateAlerts from its second await to its return (lines 87-104).  The
\* frame of a call made by fetchWeatherData stays until that run resumes.
generateAlerts_assess(p) ==
    /\ calls[p].pc = "assess"
    /\ \E suffix \in SuffixLevels, k \in DriftReads, d \in ClockDrift :
         \E alerts \in {GeneratedAlerts(calls[p].weatherData, calls[p].geologicalData,
                                        calls[p].loc.name, Readings(now, k, d), suffix)} :
           LET f == calls[p]
               done == [f EXCEPT !.pc = "done",
                                 !.landslideRisk =
                                     assessLandslideRisk(f.weatherData, f.geologicalData),
                                 !.alerts = alerts]
           IN  /\ d > 0 => k <= 3 * Len(alerts)
               /\ Advance(d)
               /\ alertCache' = AlertCacheSetAll(alertCache, alerts)
               /\ calls' = [calls EXCEPT ![p] =
                               IF f.owner = "panel" THEN done ELSE IdleFrame]
               /\ ret' = [op |-> "generateAlerts", call |-> done, alerts |-> alerts]
               /\ purged' = Purged(d, alerts # <<>>)
               /\ UNCHANGED <<search, app, ncalls, month, dataCache, panel>>

\* fetchWeatherData up to its await (lines 29-37 of WeatherPanel.tsx): the
\* call of getWeatherData, then that of generateAlerts up to its first await.
\* Its clock readings are those of lines 39 and 49 of the service, twice.
fetchWeatherData_call(loc) ==
    \E rnd1 \in MainWeatherDraws, rnd2 \in MainWeatherDraws, k \in DriftReads,
       d \in ClockDrift :
        LET p == FreeFrame
            clk == Readings(now, k, d)
            r1 == getWeatherData(dataCache, loc.lat, loc.lng, clk[1], clk[2], month, rnd1)
            r2 == getWeatherData(r1.cache, loc.lat, loc.lng, clk[3], clk[4], month, rnd2)
        IN  /\ HasFreeFrame
            /\ ncalls < MaxCalls
            /\ ncalls' = ncalls + 1
            /\ Advance(d)
            /\ dataCache' = r2.cache
            /\ calls' = [calls EXCEPT ![p] =
                            [IdleFrame EXCEPT !.pc = "geo", !.owner = "panel",
                                              !.loc = loc, !.weatherData = r2.data,
                                              !.weatherComputed = r2.computed,
                                              !.panelWeather = r1.data]]
            /\ ret' = NoRet
            /\ purged' = Purged(d, FALSE)

\* App renders WeatherPanel with another location: the effect of lines 21-27
\* runs, which calls fetchWeatherData and starts the 5-minute interval.
SelectLocation ==
    \E loc \in Locations :
        /\ Quiescent
        /\ loc # panel.location
        /\ fetchWeatherData_call(loc)
        /\ panel' = [panel EXCEPT !.location = loc, !.timer = now' + REFRESH_INTERVAL]
        /\ UNCHANGED <<search, app, month, alertCache>>

\* The interval of line 24 fires: fetchWeatherData runs again.
PanelInterval ==
    /\ Quiescent
    /\ panel.location # NoLocation
    /\ now >= panel.timer
    /\ fetchWeatherData_call(panel.location)
    /\ panel' = [panel EXCEPT !.timer = now' + REFRESH_INTERVAL]
    /\ UNCHANGED <<search, app, month, alertCache>>

\* The user clicks the refresh button (line 97), which is disabled while a
\* run of fetchWeatherData is loading.
RefreshClick ==
    /\ Quiescent
    /\ panel.location # NoLocation
    /\ fetchWeatherData_call(panel.location)
    /\ UNCHANGED <<search, app, month, alertCache, panel>>

\* fetchWeatherData after its await (lines 39-41): both promises are settled.
fetchWeatherData_resume(p) ==
    /\ calls[p].pc = "done"
    /\ calls[p].owner = "panel"
    /\ panel' = [panel EXCEPT !.weatherData = calls[p].panelWeather,
                              !.alerts = calls[p].alerts]
    /\ calls' = [calls EXCEPT ![p] = IdleFrame]
    /\ ret' = NoRet
    /\ UNCHANGED <<search, app, now, ticks, ncalls, month, dataCache, alertCache, purged>>

\* Some caller calls weatherService.getActiveAlerts().
CallGetActiveAlerts ==
    /\ ret' = [op |-> "getActiveAlerts", alerts |-> getActiveAlerts(alertCache, now)]
    /\ UNCHANGED <<search, app, now, ticks, ncalls, month, dataCache, alertCache, calls, panel, purged>>

\* Some caller calls weatherService.clearExpiredAlerts().
CallClearExpiredAlerts ==
    /\ alertCache' = clearExpiredAlerts(alertCache, now, 1)
    /\ purged' = "now"
    /\ ret' = [op |-> "clearExpiredAlerts", repeat |-> (purged = "now")]
    /\ UNCHANGED <<search, app, now, ticks, ncalls, month, dataCache, calls, panel>>

----------------------------------------------------------------------------
(* The service and its callers: any code may call the methods of the       *)
(* exported weatherService, at any time.                                   *)

Next ==
    \/ Tick
    \/ generateAlerts_call
    \/ \E p \in Procs : generateAlerts_geo(p)
    \/ \E p \in Procs : generateAlerts_assess(p)
    \/ CallGetActiveAlerts
    \/ CallClearExpiredAlerts

Spec == Init /\ [][Next]_vars

----------------------------------------------------------------------------
(* The application as it is written: WeatherPanel is the only caller of    *)
(* getWeatherData and generateAlerts.  No code of the application calls    *)
(* clearExpiredAlerts; the step is in NextApp as one that may happen, and  *)
(* AppSpec states no fairness for it.  The timer, the continuations of     *)
(* the calls in flight and the clock go on by themselves.                  *)

NextApp ==
    \/ Tick
    \/ SelectLocation
    \/ PanelInterval
    \/ RefreshClick
    \/ \E p \in Procs : generateAlerts_geo(p)
    \/ \E p \in Procs : generateAlerts_assess(p)
    \/ \E p \in Procs : fetchWeatherData_resume(p)
    \/ CallClearExpiredAlerts

AppSpec ==
    /\ Init
    /\ [][NextApp]_vars
    /\ WF_vars(Tick)
    /\ WF_vars(PanelInterval)
    /\ \A p \in Procs : WF_vars(generateAlerts_geo(p))
    /\ \A p \in Procs : WF_vars(generateAlerts_assess(p))
    /\ \A p \in Procs : WF_vars(fetchWeatherData_resume(p))

----------------------------------------------------------------------------
(* The classifier on its own: generateAlerts has fetched its two readings  *)
(* and is about to assess them (line 87).  The readings are drawn from the *)
(* values on and next to every threshold of the hazard checks, and a slope *)
(* of 35 degrees and a seismic activity of 3.5 above the last thresholds.   *)

BoundaryTemperature == {-201, -200, 400, 401}
BoundaryWindSpeed == {25000, 25001, 35000, 35001}
BoundaryPrecipitation == {100, 101, 250, 251, 500, 501}
BoundarySoilMoisture == {40, 41, 60, 61, 80, 81}
BoundarySlopeAngle == {150, 151, 200, 201, 300, 301, 350}
BoundarySeismicActivity == {20, 21, 30, 31, 35}

AssessLocation == [lat |-> 286, lng |-> 772, name |-> "Delhi"]

BoundaryWeather ==
    { [ location |-> [city |-> "Shimla", region |-> "Northern India", country |-> "India",
                      coordinates |-> [lat |-> AssessLocation.lat,
                                       lng |-> AssessLocation.lng]],
        current  |-> [temperature |-> t, humidity |-> 60, windSpeed |-> w,
                      precipitation |-> pr] ] :
          t \in BoundaryTemperature, w \in BoundaryWindSpeed,
          pr \in BoundaryPrecipitation }

BoundaryGeological ==
    { [ location         |-> [lat |-> AssessLocation.lat, lng |-> AssessLocation.lng,
                              region |-> "Northern India"],
        soilMoisture     |-> sm,
        slopeAngle       |-> sa,
        recentRainfall   |-> 0,
        seismicActivity  |-> se,
        terrainStability |-> 85 ] :
          sm \in BoundarySoilMoisture, sa \in BoundarySlopeAngle,
          se \in BoundarySeismicActivity }

InitAssess ==
    \E w \in BoundaryWeather, g \in BoundaryGeological :
        /\ now = 0
        /\ ticks = 0
        /\ ncalls = 1
        /\ month \in StartMonths
        /\ dataCache =
              DataCacheSet(
                  DataCacheSet(<<>>,
                      cacheKey("weather", AssessLocation.lat, AssessLocation.lng),
                      [data |-> w, timestamp |-> 0]),
                  cacheKey("geological", AssessLocation.lat, AssessLocation.lng),
                  [data |-> g, timestamp |-> 0])
        /\ alertCache = <<>>
        /\ calls = [p \in Procs |->
                      IF p = 1
                        THEN [IdleFrame EXCEPT !.pc = "assess", !.owner = "caller",
                                               !.loc = AssessLocation,
                                               !.weatherData = w, !.weatherComputed = TRUE,
                                               !.geologicalData = g,
                                               !.geologicalComputed = TRUE]
                        ELSE IdleFrame]
        /\ panel = [location |-> NoLocation, timer |-> NoTimer,
                    weatherData |-> NoData, alerts |-> <<>>]
        /\ ret = NoRet
        /\ purged = "no"
        /\ search = InitialSearch
        /\ app = InitialApp

NextAssess == \E p \in Procs : generateAlerts_assess(p)

AssessSpec == InitAssess /\ [][NextAssess]_vars

----------------------------------------------------------------------------
(* The synthesizer and the classifier together: one generateAlerts call on *)
(* a service just loaded, in each season, for coordinates in each          *)
(* geological bounding box, in the overlaps of the boxes, outside all of   *)
(* them and outside the globe, with each Math.random() draw at the ends of *)
(* its range.                                                              *)

\* One month of each season: winter, summer, monsoon, post-monsoon.
SynthMonths == {1, 4, 7, 10}

SynthLocations ==
    { [lat |-> 286, lng |-> 772, name |-> "Delhi"],       \* Himalayan and Gangetic
      [lat |-> 340, lng |-> 770, name |-> "Leh"],         \* Himalayan
      [lat |-> 150, lng |-> 750, name |-> "Hubli"],       \* Western Ghats and Deccan
      [lat |-> 100, lng |-> 760, name |-> "Coimbatore"],  \* Western Ghats
      [lat |-> 220, lng |-> 790, name |-> "Jabalpur"],    \* Deccan
      [lat |-> 240, lng |-> 800, name |-> "Rewa"],        \* Deccan and Gangetic
      [lat |-> 268, lng |-> 809, name |-> "Lucknow"],     \* Gangetic
      [lat |-> 223, lng |-> 708, name |-> "Rajkot"],      \* no box
      [lat |-> 950, lng |-> 2000, name |-> "Nowhere"] }   \* not on the globe

SynthWeatherDraws ==
    { [precip |-> a, humid |-> h, temp |-> b, wind |-> c] :
          a \in {0, 300, 999}, h \in {0, 999}, b \in {0, 999}, c \in {0, 999} }

SynthGeoDraws ==
    { [soil |-> a, rain |-> 0, slope |-> b, seismic |-> c, stability |-> e] :
          a \in {0, 999}, b \in {0, 999}, c \in {0, 999}, e \in {0, 999} }

InitSynth ==
    /\ now = 0
    /\ ticks = 0
    /\ ncalls = 0
    /\ month \in SynthMonths
    /\ dataCache = <<>>
    /\ alertCache = <<>>
    /\ calls = [p \in Procs |-> IdleFrame]
    /\ panel = [location |-> NoLocation, timer |-> NoTimer,
                weatherData |-> NoData, alerts |-> <<>>]
    /\ ret = NoRet
    /\ purged = "no"
    /\ search = InitialSearch
    /\ app = InitialApp

NextSynth ==
    \/ generateAlerts_callWith(SynthLocations, SynthWeatherDraws, 1)
    \/ \E p \in Procs : generateAlerts_geoWith(p, SynthGeoDraws)
    \/ \E p \in Procs : generateAlerts_assess(p)

SynthSpec == InitSynth /\ [][NextSynth]_vars

----------------------------------------------------------------------------
(* The two readings as the synthesizers produce them for one place, with   *)
(* the precipitation and the soil moisture set to given values, handed to  *)
(* generateAlerts at its assessment (line 87).                             *)

ExampleGeoDraws ==
    { [soil |-> 0, rain |-> 0, slope |-> b, seismic |-> c, stability |-> e] :
          b \in {0, 500, 999}, c \in {0, 500, 999}, e \in {0, 999} }

ExampleWeather(loc, rnd) ==
    [generateIndianWeatherData(loc.lat, loc.lng, 7, rnd)
        EXCEPT !.current.precipitation = 600]

ExampleGeological(loc, rnd) ==
    [generateIndianGeologicalData(loc.lat, loc.lng, 7, rnd)
        EXCEPT !.soilMoisture = 85]

InitExample ==
    \E wr \in SynthWeatherDraws, gr \in ExampleGeoDraws :
        LET w == ExampleWeather(AssessLocation, wr)
            g == ExampleGeological(AssessLocation, gr)
        IN  /\ now = 0
            /\ ticks = 0
            /\ ncalls = 1
            /\ month = 7
            /\ dataCache =
                  DataCacheSet(DataCacheSet(<<>>,
                                   cacheKey("weather", AssessLocation.lat, AssessLocation.lng),
                                            [data |-> w, timestamp |-> 0]),
                               cacheKey("geological", AssessLocation.lat, AssessLocation.lng),
                               [data |-> g, timestamp |-> 0])
            /\ alertCache = <<>>
            /\ calls = [p \in Procs |->
                          IF p = 1
                            THEN [IdleFrame EXCEPT !.pc = "assess", !.owner = "caller",
                                                   !.loc = AssessLocation,
                                                   !.weatherData = w,
                                                   !.weatherComputed = TRUE,
                                                   !.geologicalData = g,
                                                   !.geologicalComputed = TRUE]
                            ELSE IdleFrame]
            /\ panel = [location |-> NoLocation, timer |-> NoTimer,
                        weatherData |-> NoData, alerts |-> <<>>]
            /\ ret = NoRet
            /\ purged = "no"
            /\ search = InitialSearch
            /\ app = InitialApp

NextExample == \E p \in Procs : generateAlerts_assess(p)

ExampleSpec == InitExample /\ [][NextExample]_vars

----------------------------------------------------------------------------
(* The map components.  The clock moves between their events.              *)

Elapse ==
    \E d \in ElapseSteps :
        /\ ticks < MaxElapses
        /\ now' = now + d
        /\ ticks' = ticks + 1
        /\ ret' = NoRet
        /\ UNCHANGED <<ncalls, month, dataCache, alertCache, calls, panel, purged,
                       search, app>>

\* The timeout that fires next: the one due first, the older one of two due
\* together.
NextDue(timers, t) ==
    /\ t \in timers
    /\ now >= t.due
    /\ \A u \in timers : u.due > t.due \/ (u.due = t.due /\ u.id >= t.id)

----------------------------------------------------------------------------
(* LocationSearch.  handleCurrentLocation, the focus handler and the       *)
(* backdrop, which neither search nor touch the timer, are left out.       *)

\* String.prototype.trim on the values of the model.
Trim(v) == IF v = " " THEN "" ELSE v

\* What the geocoder knows for a query (the fields the component reads).
ServerPlaces(q) ==
    IF q = "d"
      THEN <<[place_id |-> 1, display_name |-> "Delhi, India", lat |-> 286, lon |-> 772]>>
    ELSE IF q = "de"
      THEN <<[place_id |-> 2, display_name |-> "Dehradun, India", lat |-> 303, lon |-> 780]>>
    ELSE IF q = "delhi"
      THEN <<[place_id |-> 1, display_name |-> "Delhi, India", lat |-> 286, lon |-> 772]>>
    ELSE <<>>

\* A faulty variant of clearTimeout: the timeout stays pending.
clearTimeout_Kept(timers, id) == timers

clearTimeout(timers, id) == { t \in timers : t.id # id }

\* handleInputChange (lines 74-87).
handleInputChange ==
    \E value \in InputValues :
        LET kept == IF search.searchTimeout # NoTimer
                      THEN clearTimeout(search.timers, search.searchTimeout)
                      ELSE search.timers
            id == search.ntimers + 1
        IN  /\ value # search.query
            /\ search.ntimers < MaxInputs
            /\ search' = [search EXCEPT
                              !.query = value,
                              !.timers = kept \cup {[id |-> id, value |-> value,
                                                     due |-> now + DEBOUNCE_DELAY]},
                              !.searchTimeout = id,
                              !.ntimers = id,
                              !.typed = [value |-> value, at |-> now]]
            /\ ret' = [op |-> "handleInputChange"]
            /\ UNCHANGED <<now, ticks, ncalls, month, dataCache, alertCache, calls,
                           panel, purged, app>>

\* The debounce timeout fires (lines 84-86): searchLocation up to its first
\* await (lines 34-55).
searchLocation_call ==
    \E t \in search.timers :
        LET n == search.issued + 1
        IN  /\ NextDue(search.timers, t)
            /\ search' =
                  IF Trim(t.value) = ""
                    THEN [search EXCEPT !.timers = @ \ {t}, !.issued = n,
                                        !.results = <<>>, !.showResults = FALSE]
                    ELSE [search EXCEPT !.timers = @ \ {t}, !.issued = n,
                                        !.isLoading = TRUE,
                                        !.requests = @ \cup {[n |-> n, query |-> t.value,
                                                              pc |-> "fetch"]}]
            /\ ret' = [op |-> "searchLocation", n |-> n, query |-> t.value]
            /\ UNCHANGED <<now, ticks, ncalls, month, dataCache, alertCache, calls,
                           panel, purged, app>>

\* The catch and finally blocks of searchLocation (lines 65-71).
searchLocation_failed(r, outcome) ==
    /\ search' = [search EXCEPT !.requests = @ \ {r}, !.results = <<>>,
                                !.showResults = FALSE, !.isLoading = FALSE]
    /\ ret' = [op |-> "searchLocation_end", n |-> r.n, outcome |-> outcome]

\* fetch settles (lines 53-61): it rejects, or resolves with a response that
\* is OK or not.
searchLocation_fetched ==
    \E r \in search.requests, outcome \in {"rejected", "not OK", "OK"} :
        /\ r.pc = "fetch"
        /\ IF outcome = "OK"
             THEN /\ search' = [search EXCEPT
                                   !.requests = (@ \ {r}) \cup {[r EXCEPT !.pc = "json"]}]
                  /\ ret' = NoRet
             ELSE searchLocation_failed(r, outcome)
        /\ UNCHANGED <<now, ticks, ncalls, month, dataCache, alertCache, calls,
                       panel, purged, app>>

\* response.json() settles (lines 61-71): the body is no JSON, or a list
\* with no place, or the list of the places found.
searchLocation_parsed ==
    \E r \in search.requests, outcome \in {"invalid", "no results", "results"} :
        /\ r.pc = "json"
        /\ outcome = "results" => ServerPlaces(r.query) # <<>>
        /\ IF outcome = "invalid"
             THEN searchLocation_failed(r, outcome)
             ELSE /\ search' = [search EXCEPT
                                   !.requests = @ \ {r},
                                   !.results = IF outcome = "results"
                                                 THEN ServerPlaces(r.query) ELSE <<>>,
                                   !.showResults = TRUE, !.isLoading = FALSE]
                  /\ ret' = [op |-> "searchLocation_end", n |-> r.n, outcome |-> outcome]
        /\ UNCHANGED <<now, ticks, ncalls, month, dataCache, alertCache, calls,
                       panel, purged, app>>

\* handleResultClick (lines 89-95) on the i-th result.
handleResultClick(i) ==
    /\ i \in 1..Len(search.results)
    /\ search' = [search EXCEPT !.query = search.results[i].display_name,
                                !.showResults = FALSE]
    /\ ret' = [op |-> "onLocationSelect", lat |-> search.results[i].lat,
               lng |-> search.results[i].lon, name |-> search.results[i].display_name]
    /\ UNCHANGED <<now, ticks, ncalls, month, dataCache, alertCache, calls,
                   panel, purged, app>>

\* The user clicks a result of the list, shown while showResults (line 198).
ResultClick ==
    \E i \in 1..Len(search.results) :
        /\ search.showResults
        /\ handleResultClick(i)

\* handleSubmit (lines 97-102), with results to take the first of.
handleSubmit ==
    /\ Len(search.results) > 0
    /\ handleResultClick(1)

NextSearch ==
    \/ Elapse
    \/ handleInputChange
    \/ searchLocation_call
    \/ searchLocation_fetched
    \/ searchLocation_parsed
    \/ ResultClick
    \/ handleSubmit

SearchSpec == Init /\ [][NextSearch]_vars

----------------------------------------------------------------------------
(* App.  handleGoToLocation and handleCenterMap, which move the map and    *)
(* the selection only, are left out.  A handler reads the markers of the   *)
(* render it was created in: a timeout or a request carries the list its   *)
(* handler saw when it was called.                                         *)

\* String.prototype.toLowerCase on the titles and queries of the model.
toLowerCase(v) ==
    CASE v = "New York City" -> "new york city"
      [] v = "Los Angeles" -> "los angeles"
      [] v = "Chicago" -> "chicago"
      [] v = "Delhi" -> "delhi"
      [] v = "Location 4" -> "location 4"
      [] v = "Location 5" -> "location 5"
      [] v = "Location 6" -> "location 6"
      [] v = "Location 7" -> "location 7"
      [] OTHER -> v

\* String.prototype.includes on lower-case values: the queries of the model
\* are whole words, found in a title only as the title itself.
includes(title, q) == title = q

\* display_name.split(',')[0] (line 95).
SplitFirst(display_name) ==
    CASE display_name = "Delhi, India" -> "Delhi"
      [] display_name = "Dehradun, India" -> "Dehradun"
      [] OTHER -> display_name

\* The template `Location ${n}` (line 119).
LocationTitle(n) == "Location " \o ToString(n)

\* markers.find (lines 66-68): the positions of the markers whose title
\* includes the query.
FoundMarkers(markers, q) ==
    { i \in 1..Len(markers) : includes(toLowerCase(markers[i].title), toLowerCase(q)) }

\* The input's onChange (line 168).
setSearchQuery ==
    \E value \in SearchQueries :
        /\ value # app.searchQuery
        /\ app' = [app EXCEPT !.searchQuery = value]
        /\ ret' = [op |-> "setSearchQuery"]
        /\ UNCHANGED <<now, ticks, ncalls, month, dataCache, alertCache, calls,
                       panel, purged, search>>

\* handleSearch up to its first await (lines 60-82): a blank query returns,
\* a query found among the markers moves the map, any other is sent to the
\* geocoder.
handleSearch_call ==
    LET n == app.nsearches + 1
        found == FoundMarkers(app.markers, app.searchQuery)
    IN  /\ app.nsearches < MaxSearches
        /\ IF Trim(app.searchQuery) = ""
             THEN /\ app' = [app EXCEPT !.nsearches = n]
                  /\ ret' = [op |-> "handleSearch", n |-> n, outcome |-> "blank"]
           ELSE IF found # {}
             THEN /\ app' = [app EXCEPT !.nsearches = n, !.isSearching = FALSE]
                  /\ ret' = [op |-> "handleSearch", n |-> n, outcome |-> "found"]
           ELSE /\ app' = [app EXCEPT
                              !.nsearches = n, !.isSearching = TRUE,
                              !.requests = @ \cup {[n |-> n, query |-> app.searchQuery,
                                                    markers |-> app.markers,
                                                    pc |-> "fetch", ok |-> TRUE]}]
                /\ ret' = [op |-> "handleSearch", n |-> n, outcome |-> "sent"]
        /\ UNCHANGED <<now, ticks, ncalls, month, dataCache, alertCache, calls,
                       panel, purged, search>>

\* fetch settles (lines 80-83): it rejects (lines 103-108), or resolves with
\* a response whose status, OK or not, handleSearch does not read.
handleSearch_fetched ==
    \E r \in app.requests, outcome \in {"rejected", "not OK", "OK"} :
        /\ r.pc = "fetch"
        /\ IF outcome = "rejected"
             THEN /\ app' = [app EXCEPT !.requests = @ \ {r}, !.isSearching = FALSE]
                  /\ ret' = [op |-> "handleSearch_end", n |-> r.n, ok |-> FALSE,
                             outcome |-> "rejected", before |-> r.markers]
             ELSE /\ app' = [app EXCEPT
                                !.requests = (@ \ {r}) \cup
                                    {[r EXCEPT !.pc = "json", !.ok = (outcome = "OK")]}]
                  /\ ret' = NoRet
        /\ UNCHANGED <<now, ticks, ncalls, month, dataCache, alertCache, calls,
                       panel, purged, search>>

\* response.json() settles (lines 83-108): the body is no JSON, or JSON
\* that is no list, or a list with no place, or a list of places.
handleSearch_parsed ==
    \E r \in app.requests, outcome \in {"invalid", "not a list", "no results", "results"} :
        LET newMarker == [id |-> now,
                          title |-> SplitFirst(ServerPlaces(r.query)[1].display_name)]
        IN  /\ r.pc = "json"
            /\ outcome = "results" => ServerPlaces(r.query) # <<>>
            /\ app' = IF outcome = "results"
                        THEN [app EXCEPT !.requests = @ \ {r}, !.isSearching = FALSE,
                                         !.markers = Append(r.markers, newMarker),
                                         !.expected = Append(@, newMarker)]
                        ELSE [app EXCEPT !.requests = @ \ {r}, !.isSearching = FALSE]
            /\ ret' = [op |-> "handleSearch_end", n |-> r.n, ok |-> r.ok,
                       outcome |-> outcome, before |-> r.markers]
            /\ UNCHANGED <<now, ticks, ncalls, month, dataCache, alertCache, calls,
                           panel, purged, search>>

\* handleMapClick (lines 111-126) up to its setTimeout.
handleMapClick ==
    LET id == app.ntimers + 1
    IN  /\ app.ntimers < MaxClicks
        /\ app' = [app EXCEPT !.isAddingMarker = TRUE,
                              !.ntimers = id,
                              !.timers = @ \cup {[id |-> id, markers |-> app.markers,
                                                  due |-> now + 200]}]
        /\ ret' = [op |-> "handleMapClick", id |-> id]
        /\ UNCHANGED <<now, ticks, ncalls, month, dataCache, alertCache, calls,
                       panel, purged, search>>

\* The timeout of handleMapClick fires (lines 115-125).
handleMapClick_timeout ==
    \E t \in app.timers :
        LET newMarker == [id |-> now, title |-> LocationTitle(Len(t.markers) + 1)]
        IN  /\ NextDue(app.timers, t)
            /\ app' = [app EXCEPT !.timers = @ \ {t},
                                  !.markers = Append(t.markers, newMarker),
                                  !.isAddingMarker = FALSE,
                                  !.expected = Append(@, newMarker)]
            /\ ret' = [op |-> "handleMapClick_timeout", id |-> t.id]
            /\ UNCHANGED <<now, ticks, ncalls, month, dataCache, alertCache, calls,
                           panel, purged, search>>

\* handleDeleteMarker (lines 139-144) from the button of a listed marker
\* (line 211).
handleDeleteMarker ==
    \E i \in 1..Len(app.markers) :
        LET id == app.markers[i].id
        IN  /\ app.ndeletes < MaxDeletes
            /\ app' = [app EXCEPT
                          !.ndeletes = @ + 1,
                          !.markers = SelectSeq(app.markers, LAMBDA m : m.id # id),
                          !.expected = SelectSeq(@, LAMBDA m : m.id # id)]
            /\ ret' = [op |-> "handleDeleteMarker", id |-> id]
            /\ UNCHANGED <<now, ticks, ncalls, month, dataCache, alertCache, calls,
                           panel, purged, search>>

NextMap ==
    \/ Elapse
    \/ setSearchQuery
    \/ handleSearch_call
    \/ handleSearch_fetched
    \/ handleSearch_parsed
    \/ handleMapClick
    \/ handleMapClick_timeout
    \/ handleDeleteMarker

MapSpec == Init /\ [][NextMap]_vars

----------------------------------------------------------------------------
(* Properties: the reading cache *)

WeatherKey(loc) == cacheKey("weather", loc.lat, loc.lng)
GeologicalKey(loc) == cacheKey("geological", loc.lat, loc.lng)

\* The step is generateAlerts reaching its call of getWeatherData.
IsWeatherFetch == ncalls' = ncalls + 1

\* The step is the frame p of generateAlerts calling getGeologicalData.
IsGeologicalFetch(p) == calls[p].pc = "geo" /\ calls'[p].pc = "assess"

\* A fetch that finds an entry less than 5 minutes old serves that entry's
\* reading, computes nothing and leaves the cache as it is.
ServedFromCache(key, data, computed) ==
    (key \in DOMAIN dataCache /\ now - dataCache[key].timestamp < 5 * 60 * 1000)
        => /\ data = dataCache[key].data
           /\ ~computed
           /\ dataCache' = dataCache

\* A fetch serves the cached reading only if its entry is less than 5
\* minutes old; one that finds an entry 5 minutes old or older computes a
\* reading, serves it and stores it under a new, later timestamp.
NeverServedStale(key, data, computed) ==
    /\ ~computed => /\ key \in DOMAIN dataCache
                    /\ now - dataCache[key].timestamp < 5 * 60 * 1000
                    /\ data = dataCache[key].data
    /\ (key \in DOMAIN dataCache /\ now - dataCache[key].timestamp >= 5 * 60 * 1000)
          => /\ computed
             /\ dataCache'[key].data = data
             /\ dataCache'[key].timestamp > dataCache[key].timestamp
             /\ dataCache'[key].timestamp >= now
             /\ dataCache'[key].timestamp <= now'

\* C1: a getWeatherData or getGeologicalData call for coordinates whose
\* cache entry is younger than CACHE_DURATION (now - fetchTimestamp < 5 min)
\* returns the cached reading itself, computes no reading and does not
\* write the cache.
C1_CacheHitWithinTTL ==
    [][ /\ IsWeatherFetch =>
               ServedFromCache(WeatherKey(calls'[FreeFrame].loc),
                               calls'[FreeFrame].weatherData,
                               calls'[FreeFrame].weatherComputed)
        /\ \A p \in Procs :
               IsGeologicalFetch(p) =>
                   ServedFromCache(GeologicalKey(calls[p].loc),
                                   calls'[p].geologicalData,
                                   calls'[p].geologicalComputed) ]_vars

\* C1, its case: a call has been served both readings from entries one
\* millisecond short of the TTL.
C1_HitJustInsideTTL ==
    \E p \in Procs :
        /\ calls[p].pc = "assess"
        /\ ~calls[p].weatherComputed
        /\ ~calls[p].geologicalComputed
        /\ now - dataCache[WeatherKey(calls[p].loc)].timestamp = 5 * 60 * 1000 - 1
        /\ now - dataCache[GeologicalKey(calls[p].loc)].timestamp = 5 * 60 * 1000 - 1

\* C2: no call returns a cached reading whose age is CACHE_DURATION or
\* more; a call that finds such an entry takes the miss path: it computes a
\* new reading and replaces the entry, with a new fetch timestamp.
C2_StaleNeverReturned ==
    [][ /\ IsWeatherFetch =>
               NeverServedStale(WeatherKey(calls'[FreeFrame].loc),
                                calls'[FreeFrame].weatherData,
                                calls'[FreeFrame].weatherComputed)
        /\ \A p \in Procs :
               IsGeologicalFetch(p) =>
                   NeverServedStale(GeologicalKey(calls[p].loc),
                                    calls'[p].geologicalData,
                                    calls'[p].geologicalComputed) ]_vars

\* C2, its case: both readings of a location were stored at time 0 (the
\* alert made from them is stamped 0) and a call at exactly the TTL has
\* computed and stored both anew.
C2_RecomputedAtExactlyTTL ==
    \E p \in Procs :
        /\ calls[p].pc = "assess"
        /\ calls[p].weatherComputed
        /\ calls[p].geologicalComputed
        /\ now = 5 * 60 * 1000
        /\ dataCache[WeatherKey(calls[p].loc)].timestamp = now
        /\ dataCache[GeologicalKey(calls[p].loc)].timestamp = now
        /\ \E i \in 1..Len(alertCache) :
               /\ alertCache[i].location.coordinates.lat = calls[p].loc.lat
               /\ alertCache[i].location.coordinates.lng = calls[p].loc.lng
               /\ DateParse(alertCache[i].timestamp) = 0

----------------------------------------------------------------------------
(* Properties: the alert cache *)

\* alert is one of the alerts of the sequence
IsIn(alert, alerts) == \E i \in 1..Len(alerts) : alerts[i] = alert

\* C3: getActiveAlerts returns exactly the cached alerts whose expiresAt is
\* strictly later than the clock value of the call; an alert whose
\* expiresAt equals that value is left out.
C3_ActiveAlertsExactlyUnexpired ==
    ret.op = "getActiveAlerts" =>
        /\ \A i \in 1..Len(ret.alerts) :
               /\ IsIn(ret.alerts[i], alertCache)
               /\ DateParse(ret.alerts[i].expiresAt) > now
        /\ \A i \in 1..Len(alertCache) :
               IsIn(alertCache[i], ret.alerts)
                   <=> DateParse(alertCache[i].expiresAt) > now

\* C3, its case: getActiveAlerts has returned some alerts and left out one
\* that expires at this very millisecond.
C3_ReturnedWithoutAlertExpiringNow ==
    /\ ret.op = "getActiveAlerts"
    /\ ret.alerts # <<>>
    /\ \E i \in 1..Len(alertCache) :
           /\ DateParse(alertCache[i].expiresAt) = now
           /\ ~IsIn(alertCache[i], ret.alerts)

\* The step is a call of clearExpiredAlerts.
IsClear == ret'.op = "clearExpiredAlerts"

\* C4: for one clock value, clearExpiredAlerts leaves in the cache exactly
\* the alerts getActiveAlerts returned before it, and getActiveAlerts
\* returns the same alerts after it as before it.
C4_ClearLeavesActiveAlerts ==
    [][ IsClear =>
            /\ alertCache' = getActiveAlerts(alertCache, now)
            /\ getActiveAlerts(alertCache', now) = getActiveAlerts(alertCache, now)
      ]_vars

\* C4, its case: clearExpiredAlerts has run six hours after a call that
\* raised a Critical landslide alert (and so, with over 50 mm of rain, a
\* flood alert): the flood alert, expiring at this millisecond, is gone and
\* the landslide alert is kept.
C4_ClearedAlertExpiringNow ==
    /\ ret.op = "clearExpiredAlerts"
    /\ \E i \in 1..Len(alertCache) :
           /\ alertCache[i].type = "landslide"
           /\ alertCache[i].severity = "Critical"
           /\ now = DateParse(alertCache[i].timestamp) + 6 * 60 * 60 * 1000
    /\ \A i \in 1..Len(alertCache) : alertCache[i].type # "flash_flood"

\* C5 as the specification has it: a call of clearExpiredAlerts that follows
\* another one, with no insertion in between, changes nothing.
C5_SecondClearIsNoOp ==
    [][ (IsClear /\ purged # "no") => alertCache' = alertCache ]_vars

\* C5 as it holds: a call of clearExpiredAlerts that follows another one,
\* with no insertion in between and at the same clock value, changes
\* nothing.
C5_SecondClearIsNoOpAtSameTime ==
    [][ (IsClear /\ purged = "now") => alertCache' = alertCache ]_vars

\* C5, its case: clearExpiredAlerts has run twice at one clock value, six
\* hours after a call raised a Critical landslide alert and with it a flood
\* alert: the first run removed the flood alert, the second found nothing
\* to remove.
C5_ClearedTwiceAtSameTime ==
    /\ ret.op = "clearExpiredAlerts"
    /\ ret.repeat
    /\ \E i \in 1..Len(alertCache) :
           /\ alertCache[i].type = "landslide"
           /\ alertCache[i].severity = "Critical"
           /\ now = DateParse(alertCache[i].timestamp) + 6 * 60 * 60 * 1000
    /\ \A i \in 1..Len(alertCache) : alertCache[i].type # "flash_flood"

\* The cache holds an alert whose expiresAt has been reached.
ExpiredAlertCached ==
    \E i \in 1..Len(alertCache) : DateParse(alertCache[i].expiresAt) <= now

----------------------------------------------------------------------------
(* Properties: the classifier *)

\* The alerts of the sequence that are of the type
OfType(alerts, type) == SelectSeq(alerts, LAMBDA alert : alert.type = type)

\* C7: the landslide severity is a step function of the risk score, Critical
\* from 80, High from 60 to 79, Moderate from 40 to 59, Low below 40, and
\* generateAlerts returns a landslide alert, of that severity, exactly when
\* the score is 40 or more.
C7_LandslideSeverityStep ==
    ret.op = "generateAlerts" =>
        LET score == ret.call.landslideRisk.score
            severity == ret.call.landslideRisk.severity
            landslides == OfType(ret.alerts, "landslide")
        IN  /\ score >= 80 => severity = "Critical"
            /\ (score >= 60 /\ score <= 79) => severity = "High"
            /\ (score >= 40 /\ score <= 59) => severity = "Moderate"
            /\ score < 40 => severity = "Low"
            /\ Len(landslides) = (IF score >= 40 THEN 1 ELSE 0)
            /\ \A i \in 1..Len(landslides) : landslides[i].severity = severity

\* C7, its case: a call scored exactly 80 and returned a Critical landslide
\* alert.
C7_CriticalAtExactly80 ==
    /\ ret.op = "generateAlerts"
    /\ ret.call.landslideRisk.score = 80
    /\ \E i \in 1..Len(ret.alerts) :
           ret.alerts[i].type = "landslide" /\ ret.alerts[i].severity = "Critical"

\* The time between the timestamp of an alert and its expiresAt according
\* to the specification, by the type of the alert.
Horizon(type) ==
    CASE type = "landslide"            -> 12 * 60 * 60 * 1000
      [] type = "temperature_extreme" -> 24 * 60 * 60 * 1000
      [] type = "high_wind"           -> 12 * 60 * 60 * 1000
      [] type = "flash_flood"         -> 6 * 60 * 60 * 1000

\* C8: expiresAt - timestamp of every alert generateAlerts created is
\* exactly the horizon of its type: 12 h landslide, 24 h temperature, 12 h
\* wind, 6 h flood.
C8_ExpiryExactlyHorizon ==
    \A i \in 1..Len(alertCache) :
        DateParse(alertCache[i].expiresAt) - DateParse(alertCache[i].timestamp)
            = Horizon(alertCache[i].type)

\* C9: the weather hazards fire on strict thresholds.  A temperature alert
\* iff temperature > 40 (High) or < -20 (Moderate); a wind alert iff
\* windSpeed > 25, High iff > 35, else Moderate; a flood alert iff
\* precipitation > 25, Critical iff > 50, else High.
C9_HazardThresholds ==
    ret.op = "generateAlerts" =>
        LET current == ret.call.weatherData.current
            temps == OfType(ret.alerts, "temperature_extreme")
            winds == OfType(ret.alerts, "high_wind")
            floods == OfType(ret.alerts, "flash_flood")
        IN  /\ Len(temps) =
                 (IF current.temperature > 400 \/ current.temperature < -200 THEN 1 ELSE 0)
            /\ \A i \in 1..Len(temps) :
                   temps[i].severity =
                       (IF current.temperature > 400 THEN "High" ELSE "Moderate")
            /\ Len(winds) = (IF current.windSpeed > 25000 THEN 1 ELSE 0)
            /\ \A i \in 1..Len(winds) :
                   winds[i].severity =
                       (IF current.windSpeed > 35000 THEN "High" ELSE "Moderate")
            /\ Len(floods) = (IF current.precipitation > 250 THEN 1 ELSE 0)
            /\ \A i \in 1..Len(floods) :
                   floods[i].severity =
                       (IF current.precipitation > 500 THEN "Critical" ELSE "High")

\* C9, its case: a call with the temperature at 40 exactly, the wind at 35
\* km/h exactly and the rain at 50 mm exactly returned no temperature alert,
\* a Moderate wind alert and a High flood alert.
C9_AtTheThresholds ==
    /\ ret.op = "generateAlerts"
    /\ ret.call.weatherData.current.temperature = 400
    /\ ret.call.weatherData.current.windSpeed = 35000
    /\ ret.call.weatherData.current.precipitation = 500
    /\ OfType(ret.alerts, "temperature_extreme") = <<>>
    /\ \E i \in 1..Len(ret.alerts) :
           ret.alerts[i].type = "high_wind" /\ ret.alerts[i].severity = "Moderate"
    /\ \E i \in 1..Len(ret.alerts) :
           ret.alerts[i].type = "flash_flood" /\ ret.alerts[i].severity = "High"

\* The place of a type in the order landslide, temperature, wind, flood
Rank(type) ==
    CASE type = "landslide"            -> 1
      [] type = "temperature_extreme" -> 2
      [] type = "high_wind"           -> 3
      [] type = "flash_flood"         -> 4

\* C10: the alerts generateAlerts returns are in the order landslide,
\* temperature, wind, flood, with at most one alert of each type.
C10_FixedOrderOnePerType ==
    ret.op = "generateAlerts" =>
        \A i, j \in 1..Len(ret.alerts) :
            i < j => Rank(ret.alerts[i].type) < Rank(ret.alerts[j].type)

\* C10, its case: a call returned alerts of all four types.
C10_AllFourAlerts ==
    /\ ret.op = "generateAlerts"
    /\ Len(ret.alerts) = 4
    /\ ret.alerts[1].type = "landslide"
    /\ ret.alerts[4].type = "flash_flood"

----------------------------------------------------------------------------
(* Properties: which hazards fire together *)

AlertTypes == {"landslide", "temperature_extreme", "high_wind", "flash_flood"}

\* The types of the alerts of the sequence
TypesOf(alerts) == {alerts[i].type : i \in 1..Len(alerts)}

\* The coordinates on the globe
InRange(lat, lng) == lat >= -900 /\ lat <= 900 /\ lng >= -1800 /\ lng <= 1800

\* The sets of types generateAlerts returns for some coordinates on the
\* globe, some month and some draws of Math.random().
ProducibleSubsets ==
    { TypesOf(GeneratedAlerts(
                 generateIndianWeatherData(loc.lat, loc.lng, m, wr),
                 generateIndianGeologicalData(loc.lat, loc.lng, m, gr),
                 loc.name, Readings(0, 1, 0), 500)) :
          loc \in {l \in SynthLocations : InRange(l.lat, l.lng)},
          m \in SynthMonths, wr \in SynthWeatherDraws, gr \in SynthGeoDraws }

\* C11 as the specification has it: each of the 16 subsets of the four alert
\* types is what generateAlerts returns for some coordinates and month; so
\* whatever a call has returned, the service can return each of the 16.
C11_AnySubsetMayFire ==
    ret.op = "generateAlerts" =>
        \A S \in SUBSET AlertTypes : S \in ProducibleSubsets

\* C11 as it holds: generateAlerts never returns a temperature alert
\* together with a flood alert (the synthesizer keeps the temperature at 40
\* or below whenever it rains more than 25 mm/hr), and each of the 12
\* subsets without that pair is what it returns for some coordinates and
\* month.
C11_SubsetsThatMayFire ==
    /\ ret.op = "generateAlerts" =>
           ~({"temperature_extreme", "flash_flood"} \subseteq TypesOf(ret.alerts))
    /\ \A S \in SUBSET AlertTypes :
           S \in ProducibleSubsets
               <=> ~({"temperature_extreme", "flash_flood"} \subseteq S)

\* C11, its case: a call returned a landslide, a temperature and a wind
\* alert and no flood alert.
C11_ThreeHazardsWithoutFlood ==
    /\ ret.op = "generateAlerts"
    /\ TypesOf(ret.alerts) = {"landslide", "temperature_extreme", "high_wind"}

----------------------------------------------------------------------------
(* Properties: what generateAlerts does to the caches *)

\* The step is a generateAlerts call returning.
IsReturn == ret'.op = "generateAlerts"

\* C12: when generateAlerts returns its list, every alert of the list is in
\* the alert cache under its id, and every id that was in the alert cache
\* before is still there, those of expired alerts included: generateAlerts
\* purges nothing.
C12_AlertsCachedNothingPurged ==
    [][ IsReturn =>
            /\ \A i \in 1..Len(ret'.alerts) : IsIn(ret'.alerts[i], alertCache')
            /\ \A i \in 1..Len(alertCache) :
                   \E j \in 1..Len(alertCache') : alertCache'[j].id = alertCache[i].id
            /\ Len(alertCache') >= Len(alertCache) ]_vars

\* C12, its case: generateAlerts has returned alerts, they are cached, and
\* the cache still holds an alert that had expired before the call.
C12_ReturnedWithExpiredAlertKept ==
    /\ ret.op = "generateAlerts"
    /\ ret.alerts # <<>>
    /\ \A i \in 1..Len(ret.alerts) : IsIn(ret.alerts[i], alertCache)
    /\ \E i \in 1..Len(alertCache) :
           /\ DateParse(alertCache[i].expiresAt) <= now
           /\ ~IsIn(alertCache[i], ret.alerts)

\* C13: alert ids are unique.  The alerts one call returns have different
\* ids, and none of them has the id of an alert already cached, so that
\* caching them overwrites no entry.
C13_AlertIdsUnique ==
    [][ IsReturn =>
            /\ \A i, j \in 1..Len(ret'.alerts) :
                   i # j => ret'.alerts[i].id # ret'.alerts[j].id
            /\ \A i \in 1..Len(ret'.alerts) :
                   \A j \in 1..Len(alertCache) : alertCache[j].id # ret'.alerts[i].id
      ]_vars

----------------------------------------------------------------------------
(* Properties: concurrent calls *)

\* The generateAlerts call of frame p has started and not returned.
InFlight(p) == calls[p].pc \in {"geo", "assess"}

\* Two different calls for the same coordinates are in flight together.
Concurrent(p, q) ==
    /\ p # q
    /\ InFlight(p)
    /\ InFlight(q)
    /\ calls[p].loc = calls[q].loc

WritesOnly(key) ==
    /\ DOMAIN dataCache' \subseteq (DOMAIN dataCache) \cup {key}
    /\ \A other \in DOMAIN dataCache : other # key => dataCache'[other] = dataCache[other]

\* The reading is the one cached under the key and is for the coordinates.
OwnReading(key, data, coordinates, loc) ==
    /\ key \in DOMAIN dataCache'
    /\ dataCache'[key].data = data
    /\ coordinates.lat = loc.lat
    /\ coordinates.lng = loc.lng

----------------------------------------------------------------------------
(* Properties: the worked examples *)

\* C16: for (28.6, 77.2) in July with precipitation 60 mm/hr and soil
\* moisture 85 %, slope and seismic activity as synthesized for the place,
\* generateAlerts computes a landslide score of 80 or more and returns a
\* Critical landslide alert and a Critical flash-flood alert.
C16_DelhiJulyCritical ==
    (/\ ret.op = "generateAlerts"
     /\ ret.call.loc = AssessLocation
     /\ ret.call.weatherData.current.precipitation = 600
     /\ ret.call.geologicalData.soilMoisture = 85)
        => /\ ret.call.landslideRisk.score >= 80
           /\ ret.call.landslideRisk.severity = "Critical"
           /\ \E i \in 1..Len(ret.alerts) :
                  /\ ret.alerts[i].type = "landslide"
                  /\ ret.alerts[i].severity = "Critical"
           /\ \E i \in 1..Len(ret.alerts) :
                  /\ ret.alerts[i].type = "flash_flood"
                  /\ ret.alerts[i].severity = "Critical"

\* The example returned with the least score the place can give: the
\* gentlest slope and the weakest seismic activity synthesized there.
C16_DelhiJulyLeastScore ==
    /\ ret.op = "generateAlerts"
    /\ ret.call.loc = AssessLocation
    /\ ret.call.weatherData.current.precipitation = 600
    /\ ret.call.geologicalData.soilMoisture = 85
    /\ ret.call.geologicalData.slopeAngle = 250
    /\ ret.call.geologicalData.seismicActivity = 15
    /\ ret.call.landslideRisk.score = 85
    /\ {"landslide", "flash_flood"} \subseteq TypesOf(ret.alerts)

\* C17: the geological reading for (28.6, 77.2) uses the Gangetic Plain
\* ranges: slope angle 0.5 to 3.5, seismic activity 0.1 to 0.6, terrain
\* stability 85 to 100, and soil moisture raised by 15 (at least 75 in a
\* monsoon month, at least 35 otherwise).
C17_DelhiIsGangetic ==
    GeologicalKey(AssessLocation) \in DOMAIN dataCache =>
        LET g == dataCache[GeologicalKey(AssessLocation)].data
        IN  /\ g.slopeAngle \in 5..35
            /\ g.seismicActivity \in 1..6
            /\ g.terrainStability \in 85..100
            /\ g.soilMoisture >= (IF month \in MONSOON_MONTHS THEN 75 ELSE 35)

\* The readings with every input of the landslide score below its thresholds.
Dry(w) == [w EXCEPT !.current.precipitation = 0]
Calm(g) == [g EXCEPT !.soilMoisture = 0, !.slopeAngle = 0, !.seismicActivity = 0]

\* What one input adds to the landslide score, the other three kept out.
RainPart(w, g) == assessLandslideRisk(w, Calm(g)).score
SoilPart(w, g) ==
    assessLandslideRisk(Dry(w), [Calm(g) EXCEPT !.soilMoisture = g.soilMoisture]).score
SlopePart(w, g) ==
    assessLandslideRisk(Dry(w), [Calm(g) EXCEPT !.slopeAngle = g.slopeAngle]).score
SeismicPart(w, g) ==
    assessLandslideRisk(Dry(w),
                        [Calm(g) EXCEPT !.seismicActivity = g.seismicActivity]).score

\* C18: the landslide score is the sum of four contributions, each a
\* function of its own input alone; whatever the precipitation and the soil
\* moisture, a slope of 35 degrees adds exactly 20 and a seismic activity of
\* 3.5 adds exactly 10; the score is between 0 and 100.
C18_ScoreIsSumOfParts ==
    ret.op = "generateAlerts" =>
        LET w == ret.call.weatherData
            g == ret.call.geologicalData
            score == ret.call.landslideRisk.score
        IN  /\ score = RainPart(w, g) + SoilPart(w, g) + SlopePart(w, g)
                           + SeismicPart(w, g)
            /\ g.slopeAngle = 350 =>
                   /\ SlopePart(w, g) = 20
                   /\ score = 20 + assessLandslideRisk(w, [g EXCEPT !.slopeAngle = 0]).score
            /\ g.seismicActivity = 35 =>
                   /\ SeismicPart(w, g) = 10
                   /\ score = 10 + assessLandslideRisk(w,
                                       [g EXCEPT !.seismicActivity = 0]).score
            /\ score \in 0..100

\* A slope of 35 degrees and a seismic activity of 3.5 with precipitation
\* and soil moisture that add nothing: the score is 20 + 10.
C18_SlopeAndSeismicOnly ==
    /\ ret.op = "generateAlerts"
    /\ ret.call.geologicalData.slopeAngle = 350
    /\ ret.call.geologicalData.seismicActivity = 35
    /\ RainPart(ret.call.weatherData, ret.call.geologicalData) = 0
    /\ SoilPart(ret.call.weatherData, ret.call.geologicalData) = 0
    /\ ret.call.landslideRisk.score = 30

----------------------------------------------------------------------------
(* Properties: the geological regions *)

InBox(loc, latLow, latHigh, lngLow, lngHigh) ==
    /\ loc.lat >= latLow /\ loc.lat <= latHigh
    /\ loc.lng >= lngLow /\ loc.lng <= lngHigh

InRanges(g, slope, seismic, stability) ==
    /\ g.slopeAngle \in slope
    /\ g.seismicActivity \in seismic
    /\ g.terrainStability \in stability

GeologicalReadings ==
    { dataCache[key].data : key \in { k \in DOMAIN dataCache : k[1] = "geological" } }

\* C19: the geological reading takes the slope, seismic and stability ranges
\* of the first box that holds the coordinates, in the order Himalayan
\* (lat >= 28, lng 74..95), Western Ghats (lat 8..21, lng 73..77), Deccan
\* Plateau (lat 12..24, lng 74..84), Gangetic Plain (lat 24..30, lng 77..88),
\* and the defaults slope 5, seismic 0.5, stability 85 when no box holds
\* them, whatever state the naming lookup gives.
C19_FirstMatchingRegion ==
    \A g \in GeologicalReadings :
        IF InBox(g.location, 280, g.location.lat, 740, 950)
          THEN InRanges(g, 250..450, 15..40, 50..80)
        ELSE IF InBox(g.location, 80, 210, 730, 770)
          THEN InRanges(g, 150..300, 5..20, 60..85)
        ELSE IF InBox(g.location, 120, 240, 740, 840)
          THEN InRanges(g, 20..100, 2..10, 75..95)
        ELSE IF InBox(g.location, 240, 300, 770, 880)
          THEN InRanges(g, 5..35, 1..6, 85..100)
        ELSE InRanges(g, {50}, {5}, {85})

\* A call returned for a place in both the Western Ghats and the Deccan
\* boxes, which the naming lookup puts in Karnataka: its reading has the
\* steepest Western Ghats slope, three times the steepest Deccan one.
C19_WesternGhatsBeforeDeccan ==
    /\ ret.op = "generateAlerts"
    /\ ret.call.loc.name = "Hubli"
    /\ InBox(ret.call.geologicalData.location, 80, 210, 730, 770)
    /\ InBox(ret.call.geologicalData.location, 120, 240, 740, 840)
    /\ ret.call.geologicalData.slopeAngle = 300
    /\ ret.call.geologicalData.location.region = "Southern India"

----------------------------------------------------------------------------
(* Properties: malformed coordinates *)

\* C20: a call with coordinates outside latitude -90..90 or longitude
\* -180..180 ends with an error: it gets no reading, returns no alert and
\* leaves both caches as they were, so no frame ever holds a reading for such
\* coordinates, no call for them returns, and nothing is cached for them.
C20_MalformedCoordinatesRejected ==
    /\ \A key \in DOMAIN dataCache : InRange(key[2], key[3])
    /\ \A p \in Procs :
           calls[p].pc # "idle" => InRange(calls[p].loc.lat, calls[p].loc.lng)
    /\ ret.op = "generateAlerts" => InRange(ret.call.loc.lat, ret.call.loc.lng)
    /\ \A i \in 1..Len(alertCache) :
           InRange(alertCache[i].location.coordinates.lat,
                   alertCache[i].location.coordinates.lng)

----------------------------------------------------------------------------
(* Properties: repeated calls *)

\* The alert is one more record of the hazard the other alert reports.
IsCopyOf(alert, other) ==
    /\ alert.id # other.id
    /\ alert.type = other.type
    /\ alert.severity = other.severity
    /\ alert.location = other.location

\* C23: a generateAlerts call that got both its readings from the cache (a
\* call for the same coordinates was made within the TTL), no other call
\* for the coordinates being in flight, leaves each alert it returns in the
\* alert cache next to a copy of it with another id, the same type, the
\* same severity and the same place, and getActiveAlerts returns both.
C23_SecondCallAddsCopies ==
    (/\ ret.op = "generateAlerts"
     /\ ~ret.call.weatherComputed
     /\ ~ret.call.geologicalComputed
     /\ \A p \in Procs : InFlight(p) => calls[p].loc # ret.call.loc)
        => LET active == getActiveAlerts(alertCache, now)
           IN  \A i \in 1..Len(ret.alerts) :
                   /\ IsIn(ret.alerts[i], active)
                   /\ \E j \in 1..Len(active) : IsCopyOf(active[j], ret.alerts[i])

----------------------------------------------------------------------------
(* Properties: hazards that imply each other *)

\* C24: a returned list with a flash_flood alert of severity Critical has a
\* landslide alert of severity Moderate, High or Critical before it.
C24_CriticalFloodComesWithLandslide ==
    ret.op = "generateAlerts" =>
        \A j \in 1..Len(ret.alerts) :
            (ret.alerts[j].type = "flash_flood" /\ ret.alerts[j].severity = "Critical")
                => \E i \in 1..(j - 1) :
                       /\ ret.alerts[i].type = "landslide"
                       /\ ret.alerts[i].severity \in {"Moderate", "High", "Critical"}

\* A Critical flash_flood alert was returned where precipitation is the only
\* input that adds to the landslide score: the score is 40, Moderate.
C24_CriticalFloodRainOnly ==
    /\ ret.op = "generateAlerts"
    /\ ret.call.landslideRisk.score = 40
    /\ SoilPart(ret.call.weatherData, ret.call.geologicalData) = 0
    /\ \E j \in 1..Len(ret.alerts) :
           /\ ret.alerts[j].type = "flash_flood"
           /\ ret.alerts[j].severity = "Critical"
    /\ ret.alerts[1].type = "landslide"
    /\ ret.alerts[1].severity = "Moderate"

----------------------------------------------------------------------------
(* Properties: the ranges of the synthesized readings *)

WeatherReadings ==
    { dataCache[key].data : key \in { k \in DOMAIN dataCache : k[1] = "weather" } }

\* C25: every synthesized weather reading has a windSpeed of at least 5 and
\* less than 30 and a temperature of -20 or more, and generateAlerts returns
\* no high_wind alert of severity High and no temperature alert of the cold
\* variant (severity Moderate, title Extreme Cold Warning).
C25_NoStormNoFrost ==
    /\ \A w \in WeatherReadings :
           /\ w.current.windSpeed >= 5000
           /\ w.current.windSpeed < 30000
           /\ w.current.temperature >= -200
    /\ ret.op = "generateAlerts" =>
           \A i \in 1..Len(ret.alerts) :
               /\ ret.alerts[i].type = "high_wind" => ret.alerts[i].severity = "Moderate"
               /\ ret.alerts[i].type = "temperature_extreme" =>
                      /\ ret.alerts[i].severity = "High"
                      /\ ret.alerts[i].title = <<"Extreme", "Heat", "Warning">>

\* A call returned for a hill station north of latitude 30 in winter with
\* the lowest temperature draw and the highest wind draw: -8 degrees, no
\* temperature alert, and a Moderate high_wind alert for 29.975 km/h.
C25_ColdestAndWindiest ==
    /\ ret.op = "generateAlerts"
    /\ ret.call.weatherData.current.temperature = -80
    /\ ret.call.weatherData.current.windSpeed = 29975
    /\ "temperature_extreme" \notin TypesOf(ret.alerts)
    /\ \E i \in 1..Len(ret.alerts) :
           ret.alerts[i].type = "high_wind" /\ ret.alerts[i].severity = "Moderate"

\* C26: every synthesized reading has its percentages between 0 and 100:
\* the humidity of a weather reading, the soilMoisture and the
\* terrainStability of a geological reading.
C26_PercentagesInRange ==
    /\ \A w \in WeatherReadings : w.current.humidity \in 0..100
    /\ \A g \in GeologicalReadings :
           /\ g.soilMoisture \in 0..100
           /\ g.terrainStability \in 0..100

----------------------------------------------------------------------------
(* Properties: the state lookup *)

\* Every half degree of latitude 7..38 and longitude 67..97.  The boxes of
\* getIndianLocationInfo have whole degrees as their sides, so every part
\* the boxes cut this area into holds one of these points.
LookupGrid ==
    { [lat |-> 70 + 5 * i, lng |-> 670 + 5 * j] : i \in 0..62, j \in 0..60 }

\* The states getIndianLocationInfo returns for some coordinate.
ReturnedStates == { getIndianLocationInfo(c.lat, c.lng).state : c \in LookupGrid }

\* C27: getIndianLocationInfo returns one of the twelve states of
\* INDIAN_LOCATIONS with its region for every coordinate, and each of the
\* twelve for at least one coordinate.
C27_EveryStateReturned ==
    ret.op = "generateAlerts" =>
        /\ \E l \in INDIAN_LOCATIONS :
               LET info == getIndianLocationInfo(ret.call.loc.lat, ret.call.loc.lng)
               IN  /\ info.state = l.state
                   /\ info.region = l.region
                   /\ ret.call.weatherData.location.region = l.region
        /\ \A l \in INDIAN_LOCATIONS : l.state \in ReturnedStates

----------------------------------------------------------------------------
(* Properties: one run of fetchWeatherData *)

\* C28: in every run of fetchWeatherData the weather reading the run got
\* from getWeatherData, which it displays, is the weather reading its
\* generateAlerts call got and makes the displayed alerts from.
C28_DisplayedReadingIsAssessedReading ==
    \A p \in Procs :
        (calls[p].owner = "panel" /\ calls[p].pc # "idle")
            => calls[p].panelWeather = calls[p].weatherData

----------------------------------------------------------------------------
(* Properties: the search box *)

\* C22: at most one debounce timeout is pending; a search is issued only
\* for the value of the last input change, 500 ms or more after that
\* change, and leaves no timeout pending, so that input changes less than
\* 500 ms apart end in one search, for the last value.
C22_Debounce ==
    [][ /\ Cardinality(search'.timers) <= 1
        /\ ret'.op = "searchLocation" =>
               /\ ret'.query = search.typed.value
               /\ now >= search.typed.at + DEBOUNCE_DELAY
               /\ search'.issued = search.issued + 1
               /\ search'.timers = {}
        /\ search'.issued # search.issued => ret'.op = "searchLocation" ]_vars

\* Two input changes 300 ms apart, then 500 ms of rest: the one search of
\* the behaviour has just been issued, for the second value.
C22_OneSearchForABurst ==
    /\ ret.op = "searchLocation"
    /\ ret.query = "de"
    /\ ret.n = 1
    /\ search.ntimers = 2
    /\ search.typed.at = 300
    /\ now = 800

\* C29: once every request of LocationSearch has completed, with no timeout
\* pending, and the last value typed being a query (not blank, so that the
\* searchLocation call made last sent a request), the results are those of
\* that query, the places the geocoder has for it or none: the response to
\* an earlier query has not replaced them.
C29_ResultsOfLatestQuery ==
    (/\ search.requests = {}
     /\ search.timers = {}
     /\ search.issued > 0
     /\ Trim(search.typed.value) # "")
        => search.results \in {<<>>, ServerPlaces(search.typed.value)}

----------------------------------------------------------------------------
(* Properties: the markers of the App *)

\* C30: no marker update is lost.  Once no click timeout and no search is
\* pending, the marker list is the initial markers, plus every marker added
\* by a click or a search, minus every marker deleted, in the order of the
\* updates.
C30_NoMarkerUpdateLost ==
    (app.timers = {} /\ app.requests = {}) => app.markers = app.expected

\* C21: geocoding failures are recoverable.  A search of LocationSearch that
\* fails (the fetch rejects, the status is not OK, the body is no JSON) or
\* finds nothing ends with no results and isLoading false; a search of the
\* App that fails or finds nothing ends with isSearching false and the
\* marker list as it was.
C21_FailuresAreRecoverable ==
    [][ /\ ( /\ ret'.op = "searchLocation_end"
             /\ ret'.outcome \in {"rejected", "not OK", "invalid", "no results"} )
           => (search'.results = <<>> /\ ~search'.isLoading)
        /\ ( /\ ret'.op = "handleSearch_end"
             /\ \/ ret'.outcome \in {"rejected", "invalid", "not a list", "no results"}
                \/ ~ret'.ok )
           => (~app'.isSearching /\ app'.markers = app.markers) ]_vars

=============================================================================
